---------------------------- MODULE Spec2Model ----------------------------
(***************************************************************************)
(* Model of the USB imaging tool (gui.py + backend.py, and the class       *)
(* FlashUtility of application.py).                                        *)
(*                                                                         *)
(* The state is the state of the VentoyFlasherGUI window and of its        *)
(* FlashUtility: the widgets the handlers read, the selected image, the    *)
(* catalog PREDEFINED_OS and the host platform.  Every handler is one      *)
(* action; everything a handler does to the outside world (log calls,      *)
(* HTTP requests, file operations, external commands) is recorded, in      *)
(* program order, in `events`, the trace of the handler that ran last.     *)
(* What the outside world answers (exit status, HTTP failure, dialog       *)
(* reply, ...) is an input of the action.                                  *)
(*                                                                         *)
(* Texts are sequences of atoms: an atom is either the blank " " or a      *)
(* chunk without whitespace, so str.strip, str.split, str.lower,           *)
(* str.endswith and the `in` substring test are computed on them.          *)
(*                                                                         *)
(* Specifications, all over the same variables:                            *)
(*   Spec         the window under its handlers                            *)
(*   SpecCalls    the methods of FlashUtility called one at a time         *)
(*   SpecFiles    the calls that make files, with the files followed       *)
(*   SpecLife     the window up to its close or abort, files followed      *)
(*   SpecLog      the level menu and the handlers, log pane followed       *)
(*   SpecCatalog  validate_os_links at startup, update_iso_links after     *)
(*   SpecSteps    a download and a write followed step by step             *)
(*   SpecDevices  the device list while devices come and go                *)
(*   SpecSelect   select_distro while the catalog shrinks                  *)
(*   SpecTwins    each call made on both FlashUtility classes              *)
(***************************************************************************)
EXTENDS Naturals, Sequences, FiniteSets

\* ------------------------------------------------------------- constants
LOG_DEBUG == 10
LOG_INFO == 20
LOG_WARNING == 30
LOG_ERROR == 40

None == "None"

\* A path (or URL) is a directory part and a base name made of atoms.
NoPath == [dir |-> "", base |-> <<>>]

\* The platforms platform.system() can report: the two the code branches
\* on and one of the others.
Platforms == {"Linux", "Windows", "Darwin"}

\* ---------------------------------------------------------- text helpers
\* str.strip(): drop leading and trailing blanks.
RECURSIVE LStrip(_)
LStrip(t) == IF t # <<>> /\ Head(t) = " " THEN LStrip(Tail(t)) ELSE t

RECURSIVE RStrip(_)
RStrip(t) ==
    IF t # <<>> /\ t[Len(t)] = " " THEN RStrip(SubSeq(t, 1, Len(t) - 1)) ELSE t

Strip(t) == RStrip(LStrip(t))

\* str.split(): the maximal runs of non-blank atoms, in order.
RECURSIVE SplitFrom(_, _, _)
SplitFrom(t, cur, acc) ==
    IF t = <<>>
    THEN IF cur = <<>> THEN acc ELSE Append(acc, cur)
    ELSE IF Head(t) = " "
         THEN SplitFrom(Tail(t), <<>>, IF cur = <<>> THEN acc ELSE Append(acc, cur))
         ELSE SplitFrom(Tail(t), Append(cur, Head(t)), acc)

Split(t) == SplitFrom(t, <<>>, <<>>)

\* str.lower() on the atoms the model uses.
LowerAtom(a) ==
    CASE a = "Arch" -> "arch"
      [] a = "ARCH" -> "arch"
      [] a = "Linux" -> "linux"
      [] a = "NetBSD" -> "netbsd"
      [] a = "GPT" -> "gpt"
      [] a = "MBR" -> "mbr"
      [] OTHER -> a

Lower(t) == [i \in 1..Len(t) |-> LowerAtom(t[i])]

\* needle in hay
Contains(needle, hay) ==
    \E i \in 1..(Len(hay) + 1) :
        /\ i + Len(needle) - 1 <= Len(hay)
        /\ SubSeq(hay, i, i + Len(needle) - 1) = needle

\* path.endswith(suffix), suffix one atom
EndsWith(path, suffix) ==
    /\ path.base # <<>>
    /\ path.base[Len(path.base)] = suffix

\* os.path.join(directory, name): a name that starts at the root replaces
\* the directory, and no ".." component is resolved.
Join(directory, name) ==
    IF name # <<>> /\ Head(name) = "/"
    THEN [dir |-> "/", base |-> Tail(name)]
    ELSE [dir |-> directory, base |-> name]

\* os.path.basename(path): what follows the last separator.
Basename(path) ==
    LET seps == { i \in 1..Len(path.base) : path.base[i] = "/" }
    IN  IF seps = {} THEN path.base
        ELSE SubSeq(path.base, (CHOOSE i \in seps : \A j \in seps : j <= i) + 1,
                    Len(path.base))

\* ----------------------------------------------------------------- events
\* One entry of the trace of a handler: a log call (k = "log") with its
\* level and message, or an operation on the outside world with its
\* outcome r, the path p and the device or mount point d it acts on.
Log(level, msg) ==
    [k |-> "log", lvl |-> level, m |-> msg, r |-> "", p |-> NoPath, d |-> <<>>]

Ext(kind, outcome, path, dev) ==
    [k |-> kind, lvl |-> 0, m |-> "", r |-> outcome, p |-> path, d |-> dev]

\* What a handler leaves behind: its trace, its return value and the
\* exception that escaped it ("none" when it returned).
Result(trace, value, exception) == [ev |-> trace, ret |-> value, exc |-> exception]

\* A return value of a FlashUtility method as its caller sees it: the text
\* of a bool, of None or of a str, or a path.
Ret(value, path) == [v |-> value, p |-> path]

\* No blocking call is in progress.
Idle == [phase |-> "Idle", left |-> 0]


\* ---------------------------------------------------------------- catalog
\* VENTOY_URLS: the installer archive per platform (absent for the others).
VENTOY_URLS ==
    [Linux |-> [dir |-> "https://github.com/ventoy/Ventoy/releases/download/v1.0.90",
                base |-> <<"ventoy-1.0.90-linux", ".tar.gz">>],
     Windows |-> [dir |-> "https://github.com/ventoy/Ventoy/releases/download/v1.0.90",
                  base |-> <<"ventoy-1.0.90-windows", ".zip">>]]

\* Two entries of PREDEFINED_OS, in dictionary order.  The catalog is
\* configuration data read with info.get("hash"): an entry may carry no
\* hash, and the second entry is modelled both ways.
ArchEntry ==
    [name |-> <<"Arch", " ", "Linux">>,
     url |-> [dir |-> "https://mirror.rackspace.com/archlinux/iso/latest",
              base |-> <<"archlinux-x86_64", ".iso">>],
     hash |-> "digestA"]

NetBSDEntry(h) ==
    [name |-> <<"NetBSD", " ", "9.3">>,
     url |-> [dir |-> "https://cdn.netbsd.org/pub/NetBSD/NetBSD-9.3",
              base |-> <<"NetBSD-9.3-amd64", ".iso">>],
     hash |-> h]

Catalogs == { <<ArchEntry, NetBSDEntry(h)>> : h \in {"digestB", None} }

\* The digests hashlib can return for the files of the model.
Digests == {"digestA", "digestB"}

\* The working directory made by tempfile.mkdtemp(prefix="ventoy_").
temp_dir == "/tmp/ventoy_x"

\* The working directory as a path.
TempRoot == [dir |-> temp_dir, base |-> <<>>]

\* Files the user can pick in the file dialog: one whose name matches no
\* catalog entry and one whose name contains "arch linux" in other case.
LocalFiles ==
    { [dir |-> "/home/user", base |-> <<"custom", ".iso">>],
      [dir |-> "/home/user", base |-> <<"ARCH", " ", "linux", "-respin", ".iso">>] }

\* Block devices as one lsblk -J listing reports them (name, type, size,
\* model): a stick, another disk that takes the name of the stick once the
\* stick is gone and reports no model, the system disk whose model text
\* starts with a blank, and an optical drive.
Stick ==
    [name |-> <<"sdb">>, type |-> "disk", size |-> <<"8G">>,
     model |-> <<"SanDisk", " ", "Ultra">>]

Backup ==
    [name |-> <<"sdb">>, type |-> "disk", size |-> <<"2T">>, model |-> None]

SystemDisk ==
    [name |-> <<"nvme0n1">>, type |-> "disk", size |-> <<"512G">>,
     model |-> <<" ", "Samsung", " ", "SSD">>]

Optical ==
    [name |-> <<"sr0">>, type |-> "rom", size |-> <<"1024M">>, model |-> <<"DVD">>]

\* What is attached to the machine at one moment.
Listings ==
    { <<>>, <<Stick>>, <<SystemDisk, Stick>>, <<SystemDisk, Optical, Backup>>,
      <<SystemDisk, Optical>> }

\* "/dev/" + name
DevicePath(name) == <<"/dev/">> \o name

\* The entry populate_usb_devices makes of one device:
\* "/dev/<name> - <model> (<size>)", model "Unknown Model" when the
\* listing has none.
device_entry_model_first(dev) ==
    (IF dev.model = None \/ dev.model = <<>>
     THEN <<"Unknown", " ", "Model">> ELSE dev.model)
    \o <<" ", "-", " ">> \o DevicePath(dev.name) \o <<" ", "(">> \o dev.size \o <<")">>

device_entry(dev) ==
    DevicePath(dev.name) \o <<" ", "-", " ">>
    \o (IF dev.model = None \/ dev.model = <<>>
        THEN <<"Unknown", " ", "Model">> ELSE dev.model)
    \o <<" ", "(">> \o dev.size \o <<")">>

\* Texts of the editable device selector and of the mount-point input.
DeviceTexts == { <<>>, <<" ">>, device_entry(Stick) }

MountTexts == { <<>>, <<" ">>, <<" ", "/mnt/ventoy", " ">> }

\* ------------------------------------------------------------------ state
VARIABLES
    os_type,            \* FlashUtility.os_type
    PREDEFINED_OS,      \* the catalog, a sequence of entries
    selected_iso_path,  \* NoPath is the empty string
    dd_checked,         \* dd_mode_radio.isChecked()
    ventoy_checked,     \* ventoy_mode_radio.isChecked()
    usb_device_text,    \* usb_device_combo.currentText()
    ventoy_mount_text,  \* ventoy_mount_input.text()
    log_level,          \* minimum level of the log pane
    distro_list,        \* names shown in the predefined-OS list widget
    usb_device_enabled, \* usb_device_combo.isEnabled()
    refresh_enabled,    \* refresh_btn.isEnabled()
    ventoy_mount_enabled, \* ventoy_mount_input.isEnabled()
    iso_verdict,        \* what validate_iso last reported for the selected image
    handler,            \* name of the handler that ran last
    events,             \* trace of the handler that ran last
    raised,             \* exception that escaped the handler that ran last
    log_output,         \* the lines of the log pane, oldest first
    returned,           \* what the FlashUtility method called last returned
    created,            \* the files and directories the program made, still there
    app,                \* "running", "closed" (close accepted) or "aborted"
    progress,           \* the blocking call a handler is in, with the chunks left
    cancel_requested,   \* the user asked to cancel the operation in progress
    disks,              \* the block devices attached now, as lsblk would list them
    usb_device_items,   \* the entries of usb_device_combo
    usb_details_output, \* the text of the USB details pane
    app_events,         \* trace of the same call on FlashUtility of application.py
    app_returned        \* what that call returned

vars == <<os_type, PREDEFINED_OS, selected_iso_path, dd_checked, ventoy_checked,
          usb_device_text, ventoy_mount_text, log_level, distro_list,
          usb_device_enabled, refresh_enabled, ventoy_mount_enabled,
          iso_verdict, handler, events, raised,
          log_output, returned, created, app, progress, cancel_requested,
          disks, usb_device_items, usb_details_output, app_events, app_returned>>

catalog_vars == <<os_type, PREDEFINED_OS, distro_list, log_level>>
mode_vars == <<dd_checked, ventoy_checked, usb_device_enabled, refresh_enabled,
               ventoy_mount_enabled>>
text_vars == <<usb_device_text, ventoy_mount_text>>
image_vars == <<selected_iso_path, iso_verdict>>
window_vars == <<catalog_vars, mode_vars, text_vars, image_vars>>

\* The pane, the return values, the files, the life of the window and the
\* operation in progress decide nothing a handler of the window does to
\* the variables above: each specification follows the ones its
\* properties are about and leaves the others where they are.
step_vars == <<progress, cancel_requested>>
device_vars == <<disks, usb_device_items, usb_details_output>>
twin_vars == <<app_events, app_returned>>
side_vars == <<log_output, returned, created, app, step_vars, device_vars, twin_vars>>

\* ---------------------------------------------------------------- backend
\* Outcomes of subprocess.run(command, shell=True, check=True).
CmdOutcomes == {"ok", "nonzero", "oserror"}

\* run_dd_command running the command a second time when it fails.
run_dd_command_retry(iso_path, usb_device, rc) ==
    IF os_type = "Linux"
    THEN <<Log(LOG_INFO, "Running dd command"), Ext("dd", rc, iso_path, usb_device)>>
         \o (CASE rc = "ok" -> <<Log(LOG_INFO, "Flashing complete using dd.")>>
               [] rc = "nonzero" -> <<Log(LOG_ERROR, "Error during flashing"),
                                      Ext("dd", rc, iso_path, usb_device)>>
               [] OTHER -> <<Log(LOG_ERROR, "Unexpected error")>>)
    ELSE IF os_type = "Windows"
         THEN <<Log(LOG_WARNING, "dd command is not natively supported on Windows.")>>
         ELSE <<Log(LOG_ERROR, "Unsupported OS for dd flashing.")>>

\* FlashUtility.run_dd_command
run_dd_command(iso_path, usb_device, rc) ==
    IF os_type = "Linux"
    THEN <<Log(LOG_INFO, "Running dd command"), Ext("dd", rc, iso_path, usb_device)>>
         \o (CASE rc = "ok" -> <<Log(LOG_INFO, "Flashing complete using dd.")>>
               [] rc = "nonzero" -> <<Log(LOG_ERROR, "Error during flashing")>>
               [] OTHER -> <<Log(LOG_ERROR, "Unexpected error")>>)
    ELSE IF os_type = "Windows"
         THEN <<Log(LOG_WARNING, "dd command is not natively supported on Windows.")>>
         ELSE <<Log(LOG_ERROR, "Unsupported OS for dd flashing.")>>

\* Outcomes of one download: the request fails (a requests.RequestException),
\* the local file cannot be opened or written (an OSError), the body stream
\* breaks (an urllib3 error, no RequestException), or all of it works.
NetworkFailures == {"refused", "timeout", "http_status"}
DownloadOutcomes == {"ok", "open_denied", "disk_full", "stream_error"} \cup NetworkFailures

\* download_file without raise_for_status: an error page is saved as the
\* file and its path returned.
download_file_unchecked_status(url, dest_filename, dl) ==
    LET dest_path == Join(temp_dir, dest_filename)
        start == <<Log(LOG_INFO, "Downloading")>>
    IN  IF dl \in {"refused", "timeout"}
        THEN Result(start \o <<Ext("get", dl, url, <<>>),
                               Log(LOG_ERROR, "Error downloading file")>>, NoPath, "none")
        ELSE Result(start \o <<Ext("get", "ok", url, <<>>),
                               Ext("raise_for_status", dl, url, <<>>),
                               Ext("open", "ok", dest_path, <<>>),
                               Ext("copyfileobj", "ok", dest_path, <<>>),
                               Log(LOG_INFO, "Download complete")>>, dest_path, "none")

\* FlashUtility.download_file
download_file(url, dest_filename, dl) ==
    LET dest_path == Join(temp_dir, dest_filename)
        start == <<Log(LOG_INFO, "Downloading")>>
    IN  IF dl \in {"refused", "timeout"}
        THEN Result(start \o <<Ext("get", dl, url, <<>>),
                               Log(LOG_ERROR, "Error downloading file")>>, NoPath, "none")
        ELSE IF dl = "http_status"
        THEN Result(start \o <<Ext("get", "ok", url, <<>>),
                               Ext("raise_for_status", dl, url, <<>>),
                               Log(LOG_ERROR, "Error downloading file")>>, NoPath, "none")
        ELSE IF dl = "open_denied"
        THEN Result(start \o <<Ext("get", "ok", url, <<>>),
                               Ext("raise_for_status", "ok", url, <<>>),
                               Ext("open", dl, dest_path, <<>>)>>, NoPath, "OSError")
        ELSE IF dl \in {"disk_full", "stream_error"}
        THEN Result(start \o <<Ext("get", "ok", url, <<>>),
                               Ext("raise_for_status", "ok", url, <<>>),
                               Ext("open", "ok", dest_path, <<>>),
                               Ext("copyfileobj", dl, dest_path, <<>>)>>, NoPath,
                    IF dl = "disk_full" THEN "OSError" ELSE "ProtocolError")
        ELSE Result(start \o <<Ext("get", "ok", url, <<>>),
                               Ext("raise_for_status", "ok", url, <<>>),
                               Ext("open", "ok", dest_path, <<>>),
                               Ext("copyfileobj", "ok", dest_path, <<>>),
                               Log(LOG_INFO, "Download complete")>>, dest_path, "none")

\* Outcomes of unpacking a recognised archive.
ExtractOutcomes == {"ok", "corrupt"}

\* extract_archive handing a file of an unknown format to the zip reader.
extract_archive_try_zip(archive_path, extract_to, ex) ==
    LET start == <<Log(LOG_INFO, "Extracting")>>
        unpack(kind) ==
            IF ex = "ok"
            THEN Result(start \o <<Ext(kind, "ok", archive_path, <<>>),
                                   Log(LOG_INFO, "Extraction complete.")>>, TRUE, "none")
            ELSE Result(start \o <<Ext(kind, ex, archive_path, <<>>),
                                   Log(LOG_ERROR, "Extraction error")>>, FALSE, "none")
    IN  IF EndsWith(archive_path, ".tar.gz") THEN unpack("tarfile")
        ELSE unpack("zipfile")

\* extract_archive letting the failure of the unpacking escape as an
\* ArchiveError.
extract_archive_raising(archive_path, extract_to, ex) ==
    LET start == <<Log(LOG_INFO, "Extracting")>>
        unpack(kind) ==
            IF ex = "ok"
            THEN Result(start \o <<Ext(kind, "ok", archive_path, <<>>),
                                   Log(LOG_INFO, "Extraction complete.")>>, TRUE, "none")
            ELSE Result(start \o <<Ext(kind, ex, archive_path, <<>>),
                                   Log(LOG_ERROR, "Extraction error")>>, FALSE, "ArchiveError")
    IN  IF EndsWith(archive_path, ".tar.gz") THEN unpack("tarfile")
        ELSE IF EndsWith(archive_path, ".zip") THEN unpack("zipfile")
        ELSE Result(start \o <<Log(LOG_WARNING, "Unsupported archive format.")>>,
                    FALSE, "none")

\* extract_archive reporting success also when the unpacking failed.
extract_archive_always_true(archive_path, extract_to, ex) ==
    LET start == <<Log(LOG_INFO, "Extracting")>>
        unpack(kind) ==
            IF ex = "ok"
            THEN Result(start \o <<Ext(kind, "ok", archive_path, <<>>),
                                   Log(LOG_INFO, "Extraction complete.")>>, TRUE, "none")
            ELSE Result(start \o <<Ext(kind, ex, archive_path, <<>>),
                                   Log(LOG_ERROR, "Extraction error")>>, TRUE, "none")
    IN  IF EndsWith(archive_path, ".tar.gz") THEN unpack("tarfile")
        ELSE IF EndsWith(archive_path, ".zip") THEN unpack("zipfile")
        ELSE Result(start \o <<Log(LOG_WARNING, "Unsupported archive format.")>>,
                    FALSE, "none")

\* FlashUtility.extract_archive
extract_archive(archive_path, extract_to, ex) ==
    LET start == <<Log(LOG_INFO, "Extracting")>>
        unpack(kind) ==
            IF ex = "ok"
            THEN Result(start \o <<Ext(kind, "ok", archive_path, <<>>),
                                   Log(LOG_INFO, "Extraction complete.")>>, TRUE, "none")
            ELSE Result(start \o <<Ext(kind, ex, archive_path, <<>>),
                                   Log(LOG_ERROR, "Extraction error")>>, FALSE, "none")
    IN  IF EndsWith(archive_path, ".tar.gz") THEN unpack("tarfile")
        ELSE IF EndsWith(archive_path, ".zip") THEN unpack("zipfile")
        ELSE Result(start \o <<Log(LOG_WARNING, "Unsupported archive format.")>>,
                    FALSE, "none")

\* Outcomes of os.makedirs(..., exist_ok=True) and of shutil.copy2.
FileOutcomes == {"ok", "oserror"}

\* FlashUtility.install_ventoy.  dl, mk, ex, found and rc are what the
\* download, os.makedirs, the extraction, os.path.exists of the installer
\* and the installer command answer, when the call gets that far.
install_ventoy(usb_device, dl, mk, ex, found, rc) ==
    IF os_type \notin DOMAIN VENTOY_URLS
    THEN <<Log(LOG_ERROR, "No Ventoy download available for this OS.")>>
    ELSE
    LET ventoy_url == VENTOY_URLS[os_type]
        archive_filename == Basename(ventoy_url)
        got == download_file(ventoy_url, archive_filename, dl)
        ventoy_extract_path == Join(temp_dir, <<"ventoy_extracted">>)
        unexpected == <<Log(LOG_ERROR, "Unexpected error during Ventoy installation")>>
        installer == Join(temp_dir, <<"ventoy_extracted", "/",
                          IF os_type = "Linux" THEN "Ventoy2Disk.sh" ELSE "Ventoy2Disk.exe">>)
        run == <<Log(LOG_INFO, "Installing Ventoy with command"),
                 Ext("ventoy", rc, installer, usb_device)>>
               \o (CASE rc = "ok" ->
                          <<Log(LOG_INFO, IF os_type = "Linux"
                                          THEN "Ventoy installation complete."
                                          ELSE "Ventoy installation complete on Windows.")>>
                     [] rc = "nonzero" ->
                          <<Log(LOG_ERROR, "Error during Ventoy installation")>>
                     [] OTHER -> unexpected)
    IN  IF got.exc # "none" THEN got.ev \o unexpected
        ELSE IF got.ret = NoPath
        THEN got.ev \o <<Log(LOG_ERROR, "Ventoy download failed.")>>
        ELSE IF mk # "ok"
        THEN got.ev \o <<Ext("makedirs", mk, ventoy_extract_path, <<>>)>> \o unexpected
        ELSE
        LET unpacked == extract_archive(got.ret, ventoy_extract_path, ex)
            sofar == got.ev \o <<Ext("makedirs", "ok", ventoy_extract_path, <<>>)>>
                     \o unpacked.ev
        IN  IF ~unpacked.ret
            THEN sofar \o <<Log(LOG_ERROR, "Ventoy extraction failed.")>>
            ELSE IF ~found
            THEN sofar \o <<Ext("exists", "missing", installer, <<>>),
                            Log(LOG_ERROR, IF os_type = "Linux"
                                           THEN "Ventoy installation script not found."
                                           ELSE "Ventoy installation executable not found.")>>
            ELSE sofar \o <<Ext("exists", "ok", installer, <<>>)>> \o run

\* copy_iso_to_ventoy running the loader installer on the mount point
\* before it copies.
copy_iso_to_ventoy_installing(iso_path, ventoy_mount_point, mounted, cp) ==
    IF ~mounted
    THEN <<Log(LOG_ERROR, "Ventoy mount point does not exist.")>>
    ELSE <<Ext("ventoy", "ok", NoPath, ventoy_mount_point),
           Log(LOG_INFO, "Copying ISO"), Ext("copy2", cp, iso_path, ventoy_mount_point)>>
         \o (IF cp = "ok"
             THEN <<Log(LOG_INFO, "ISO file successfully copied to Ventoy drive.")>>
             ELSE <<Log(LOG_ERROR, "Error copying ISO file")>>)

\* FlashUtility.copy_iso_to_ventoy.  mounted: os.path.exists(mount point).
copy_iso_to_ventoy(iso_path, ventoy_mount_point, mounted, cp) ==
    IF ~mounted
    THEN <<Log(LOG_ERROR, "Ventoy mount point does not exist.")>>
    ELSE <<Log(LOG_INFO, "Copying ISO"), Ext("copy2", cp, iso_path, ventoy_mount_point)>>
         \o (IF cp = "ok"
             THEN <<Log(LOG_INFO, "ISO file successfully copied to Ventoy drive.")>>
             ELSE <<Log(LOG_ERROR, "Error copying ISO file")>>)

\* FlashUtility.reformat_usb
reformat_usb(usb_device, scheme, rc) ==
    IF os_type = "Linux"
    THEN IF Lower(scheme) \notin {<<"gpt">>, <<"mbr">>}
         THEN <<Log(LOG_ERROR, "Unknown partition scheme.")>>
         ELSE <<Log(LOG_INFO, "Reformatting USB drive with command"),
                Ext("parted", rc,
                    [dir |-> "", base |-> IF Lower(scheme) = <<"gpt">>
                                          THEN <<"gpt">> ELSE <<"msdos">>],
                    usb_device)>>
              \o (CASE rc = "ok" -> <<Log(LOG_INFO, "USB drive reformatted successfully.")>>
                    [] rc = "nonzero" -> <<Log(LOG_ERROR, "Error during reformatting")>>
                    [] OTHER -> <<Log(LOG_ERROR, "Unexpected error")>>)
    ELSE IF os_type = "Windows"
         THEN <<Log(LOG_WARNING, "Reformatting USB drive is not implemented for Windows.")>>
         ELSE <<Log(LOG_ERROR, "Unsupported OS for reformatting.")>>

\* FlashUtility.get_usb_details.  rc answers the lsblk command.
get_usb_details(usb_device, rc) ==
    IF os_type = "Linux"
    THEN Result(<<Ext("lsblk", rc, NoPath, usb_device)>>,
                IF rc = "ok" THEN "lsblk output" ELSE "Error retrieving USB details",
                "none")
    ELSE IF os_type = "Windows"
         THEN Result(<<>>, "USB details not implemented for Windows.", "none")
         ELSE Result(<<>>, "Unsupported OS.", "none")

\* Contents of a file, in blocks of f.read(4096).
FileContents == { <<>>, <<"b1">>, <<"a1", "a2">> }

\* sha256_hash.hexdigest() after the blocks fed.
hexdigest(fed) ==
    CASE fed = <<"a1", "a2">> -> "digestA"
      [] fed = <<"b1">> -> "digestB"
      [] fed = <<>> -> "digestEmpty"
      [] OTHER -> "digestOther"

\* The reads and updates of the first n blocks of a file.
ReadAndFeed(file_path, contents, n) ==
    [i \in 1..(2 * n) |->
        IF i % 2 = 1
        THEN Ext("read", "block", file_path, <<contents[(i + 1) \div 2]>>)
        ELSE Ext("update", "ok", file_path, <<contents[i \div 2]>>)]

\* The body of compute_sha256 returning the digest of the blocks read so
\* far when a read fails.
sha256_of_partial(file_path, contents, opened, good_reads) ==
    IF ~opened
    THEN Result(<<Ext("open_rb", "oserror", file_path, <<>>)>>, None, "OSError")
    ELSE IF good_reads > Len(contents)
    THEN Result(<<Ext("open_rb", "ok", file_path, <<>>)>>
                \o ReadAndFeed(file_path, contents, Len(contents))
                \o <<Ext("read", "eof", file_path, <<>>)>>,
                hexdigest(contents), "none")
    ELSE Result(<<Ext("open_rb", "ok", file_path, <<>>)>>
                \o ReadAndFeed(file_path, contents, good_reads)
                \o <<Ext("read", "oserror", file_path, <<>>)>>,
                hexdigest(SubSeq(contents, 1, good_reads)), "none")

\* The body of compute_sha256: open the file, feed every block up to the
\* empty read to the accumulator, return the hexdigest.  opened answers
\* open(); good_reads is the number of f.read calls that succeed (the last
\* one of a whole file is the empty read); a failure is an OSError.
sha256_of(file_path, contents, opened, good_reads) ==
    IF ~opened
    THEN Result(<<Ext("open_rb", "oserror", file_path, <<>>)>>, None, "OSError")
    ELSE IF good_reads > Len(contents)
    THEN Result(<<Ext("open_rb", "ok", file_path, <<>>)>>
                \o ReadAndFeed(file_path, contents, Len(contents))
                \o <<Ext("read", "eof", file_path, <<>>)>>,
                hexdigest(contents), "none")
    ELSE Result(<<Ext("open_rb", "ok", file_path, <<>>)>>
                \o ReadAndFeed(file_path, contents, good_reads)
                \o <<Ext("read", "oserror", file_path, <<>>)>>,
                None, "OSError")

\* FlashUtility.compute_sha256.  digest is the hexdigest of the file, or
\* None when the file cannot be opened or read.
compute_sha256(file_path, digest) ==
    IF digest = None
    THEN Result(<<Ext("sha256", "oserror", file_path, <<>>),
                  Log(LOG_ERROR, "Error computing hash")>>, None, "none")
    ELSE Result(<<Ext("sha256", "ok", file_path, <<>>)>>, digest, "none")

\* directory holds path: the path is made of the directory and of a name
\* below it without a parent component.
Under(path, directory) ==
    /\ path.dir = directory
    /\ \A i \in 1..Len(path.base) : path.base[i] # ".."

\* FlashUtility.cleanup.  exists: os.path.exists(temp_dir); rm answers
\* shutil.rmtree.
cleanup(exists, rm) ==
    IF ~exists THEN <<Ext("exists", "missing", TempRoot, <<>>)>>
    ELSE <<Ext("exists", "ok", TempRoot, <<>>), Ext("rmtree", rm, TempRoot, <<>>)>>
         \o (IF rm = "ok"
             THEN <<Log(LOG_DEBUG, "Cleaned up temporary files.")>>
             ELSE <<Log(LOG_ERROR, "Error during cleanup")>>)

\* What can be left of a set of files after shutil.rmtree(temp_dir): a
\* tree removed whole, or, when rmtree fails, the directory with any part
\* of what it held.
AfterRmtree(files, rm) ==
    IF rm = "ok"
    THEN { { f \in files : ~Under(f, temp_dir) } }
    ELSE { files \ gone :
             gone \in SUBSET { f \in files : Under(f, temp_dir) /\ f # TempRoot } }

\* -------------------------------------------------------------------- GUI
\* The level names log_message writes in front of a message.
LevelName(level) ==
    CASE level = LOG_DEBUG -> "DEBUG"
      [] level = LOG_INFO -> "INFO"
      [] level = LOG_WARNING -> "WARNING"
      [] level = LOG_ERROR -> "ERROR"
      [] OTHER -> "INFO"

\* log_message dropping the messages at the minimum level itself.
log_message_strict(pane, message, level, minimum) ==
    IF level > minimum
    THEN Append(pane, [tag |-> LevelName(level), m |-> message])
    ELSE pane

\* VentoyFlasherGUI.log_message on the pane, with self.log_level = minimum.
log_message(pane, message, level, minimum) ==
    IF level >= minimum
    THEN Append(pane, [tag |-> LevelName(level), m |-> message])
    ELSE pane

\* The pane after the log calls of a trace, in order, at one minimum level.
RECURSIVE Logged(_, _, _)
Logged(pane, trace, minimum) ==
    IF trace = <<>> THEN pane
    ELSE Logged(IF Head(trace).k = "log"
                THEN log_message(pane, Head(trace).m, Head(trace).lvl, minimum)
                ELSE pane,
                Tail(trace), minimum)

\* VentoyFlasherGUI.validate_operation
validate_operation(target) ==
    <<Ext("validate_operation", "ok", NoPath, target),
      Log(LOG_DEBUG, "Validating operation on target")>>

\* VentoyFlasherGUI.flash_usb.  rc answers the dd command; mounted and cp
\* answer os.path.exists(mount point) and shutil.copy2.
gui_flash_usb(rc, mounted, cp) ==
    IF selected_iso_path = NoPath
    THEN Result(<<Log(LOG_WARNING, "Please select an ISO file first.")>>, None, "none")
    ELSE IF dd_checked
    THEN LET tokens == Split(Strip(usb_device_text))
         IN  IF tokens = <<>>
             THEN Result(<<>>, None, "IndexError")
             ELSE LET usb_device == tokens[1]
                  IN  IF usb_device = <<>>
                      THEN Result(<<Log(LOG_WARNING,
                                        "Please select the USB device from the dropdown.")>>,
                                  None, "none")
                      ELSE Result(<<Log(LOG_INFO, "Starting dd flashing process...")>>
                                  \o run_dd_command(selected_iso_path, usb_device, rc)
                                  \o validate_operation(usb_device), None, "none")
    ELSE IF ventoy_checked
    THEN LET ventoy_mount == Strip(ventoy_mount_text)
         IN  IF ventoy_mount = <<>>
             THEN Result(<<Log(LOG_WARNING,
                               "Please specify the Ventoy USB mount point")>>, None, "none")
             ELSE Result(<<Log(LOG_INFO, "Copying ISO file to Ventoy drive...")>>
                         \o copy_iso_to_ventoy(selected_iso_path, ventoy_mount, mounted, cp)
                         \o validate_operation(ventoy_mount), None, "none")
    ELSE Result(<<Log(LOG_ERROR, "Unknown flashing mode selected.")>>, None, "none")

\* install_ventoy without the test of the mode.
gui_install_ventoy_any_mode(dl, mk, ex, found, rc) ==
    LET ventoy_target == Strip(ventoy_mount_text)
    IN  IF ventoy_target = <<>>
        THEN <<Log(LOG_WARNING,
                   "Please specify the Ventoy USB mount point or device identifier.")>>
        ELSE <<Log(LOG_INFO, "Starting Ventoy installation...")>>
             \o install_ventoy(ventoy_target, dl, mk, ex, found, rc)

\* VentoyFlasherGUI.install_ventoy
gui_install_ventoy(dl, mk, ex, found, rc) ==
    IF dd_checked
    THEN <<Log(LOG_WARNING, "Ventoy installation is only available in Ventoy mode.")>>
    ELSE LET ventoy_target == Strip(ventoy_mount_text)
         IN  IF ventoy_target = <<>>
             THEN <<Log(LOG_WARNING,
                        "Please specify the Ventoy USB mount point or device identifier.")>>
             ELSE <<Log(LOG_INFO, "Starting Ventoy installation...")>>
                  \o install_ventoy(ventoy_target, dl, mk, ex, found, rc)

\* The entries of the reformat selector and the replies of a Yes/No dialog.
Schemes == { <<"GPT">>, <<"MBR">> }
Replies == {"Yes", "No"}

\* reformat_usb going on whatever the dialog answers.
gui_reformat_usb_unasked(scheme, reply, rc) ==
    LET tokens == Split(Strip(usb_device_text))
    IN  IF tokens = <<>>
        THEN Result(<<>>, None, "IndexError")
        ELSE LET usb_device == tokens[1]
             IN  IF usb_device = <<>>
                 THEN Result(<<Log(LOG_WARNING, "Please select a USB device to reformat.")>>,
                             None, "none")
                 ELSE Result(<<Ext("dialog", reply, NoPath, usb_device)>>
                             \o reformat_usb(usb_device, scheme, rc), None, "none")

\* VentoyFlasherGUI.reformat_usb
gui_reformat_usb(scheme, reply, rc) ==
    LET tokens == Split(Strip(usb_device_text))
    IN  IF tokens = <<>>
        THEN Result(<<>>, None, "IndexError")
        ELSE LET usb_device == tokens[1]
             IN  IF usb_device = <<>>
                 THEN Result(<<Log(LOG_WARNING, "Please select a USB device to reformat.")>>,
                             None, "none")
                 ELSE IF reply = "Yes"
                 THEN Result(<<Ext("dialog", reply, NoPath, usb_device)>>
                             \o reformat_usb(usb_device, scheme, rc), None, "none")
                 ELSE Result(<<Ext("dialog", reply, NoPath, usb_device),
                               Log(LOG_INFO, "Reformatting canceled.")>>, None, "none")

\* VentoyFlasherGUI.populate_usb_devices on one listing: ret is the list
\* of entries of the selector, cleared before the listing is read.  rc
\* answers the lsblk command.
gui_populate_usb_devices(listing, rc) ==
    IF rc = "ok"
    THEN LET shown == SelectSeq(listing, LAMBDA dev : dev.type = "disk")
         IN  Result(<<Ext("lsblk", rc, NoPath, <<>>),
                      Log(LOG_INFO, "USB devices list updated.")>>,
                    [i \in 1..Len(shown) |-> device_entry(shown[i])], "none")
    ELSE Result(<<Ext("lsblk", rc, NoPath, <<>>),
                  Log(LOG_ERROR, "Error retrieving USB devices")>>, <<>>, "none")

\* VentoyFlasherGUI.get_usb_details: ret is the text of the details pane.
gui_get_usb_details(rc) ==
    LET tokens == Split(Strip(usb_device_text))
    IN  IF tokens = <<>>
        THEN Result(<<>>, usb_details_output, "IndexError")
        ELSE LET usb_device == tokens[1]
             IN  IF usb_device = <<>>
                 THEN Result(<<Log(LOG_WARNING, "Please select a USB device first.")>>,
                             usb_details_output, "none")
                 ELSE LET details == get_usb_details(usb_device, rc)
                      IN  Result(details.ev, <<details.ret>>, "none")

\* PREDEFINED_OS.get(os_name): the index of the entry, 0 when there is none.
Lookup(os_name) ==
    IF \E i \in 1..Len(PREDEFINED_OS) : PREDEFINED_OS[i].name = os_name
    THEN CHOOSE i \in 1..Len(PREDEFINED_OS) : PREDEFINED_OS[i].name = os_name
    ELSE 0

\* select_distro taking the destination as selected whatever the download
\* returned.
gui_select_distro_eager(os_name, dl) ==
    IF Lookup(os_name) = 0
    THEN Result(<<>>, selected_iso_path, "none")
    ELSE LET url == PREDEFINED_OS[Lookup(os_name)].url
             start == <<Log(LOG_INFO, "Downloading ISO")>>
             got == download_file(url, os_name \o <<".iso">>, dl)
         IN  Result(start \o got.ev, Join(temp_dir, os_name \o <<".iso">>), got.exc)

\* VentoyFlasherGUI.select_distro: ret is the new selected_iso_path.
gui_select_distro(os_name, dl) ==
    IF Lookup(os_name) = 0
    THEN Result(<<>>, selected_iso_path, "none")
    ELSE LET url == PREDEFINED_OS[Lookup(os_name)].url
             start == <<Log(LOG_INFO, "Downloading ISO")>>
             got == download_file(url, os_name \o <<".iso">>, dl)
         IN  IF got.exc # "none"
             THEN Result(start \o got.ev, selected_iso_path, got.exc)
             ELSE IF got.ret # NoPath
             THEN Result(start \o got.ev
                         \o <<Log(LOG_INFO, "ISO downloaded and selected")>>,
                         got.ret, "none")
             ELSE Result(start \o got.ev \o <<Log(LOG_ERROR, "Failed to download ISO.")>>,
                         selected_iso_path, "none")

\* The first entry, in dictionary order, whose lower-cased name occurs in
\* the lower-cased base name of the image; 0 when there is none.
FirstMatch(iso_name) ==
    LET hits == { i \in 1..Len(PREDEFINED_OS) :
                    Contains(Lower(PREDEFINED_OS[i].name), Lower(iso_name)) }
    IN  IF hits = {} THEN 0 ELSE CHOOSE i \in hits : \A j \in hits : i <= j

\* VentoyFlasherGUI.validate_iso: ret is the outcome it reports.
gui_validate_iso(digest) ==
    IF selected_iso_path = NoPath
    THEN Result(<<Log(LOG_WARNING, "Please select an ISO file first.")>>, "none", "none")
    ELSE
    LET computed == compute_sha256(selected_iso_path, digest)
        hit == FirstMatch(Basename(selected_iso_path))
    IN  IF computed.ret = None
        THEN Result(computed.ev \o <<Log(LOG_ERROR, "Failed to compute ISO hash.")>>,
                    "failed", "none")
        ELSE IF hit = 0
        THEN Result(computed.ev
                    \o <<Log(LOG_WARNING, "No expected hash available for this ISO.")>>,
                    "unverified", "none")
        ELSE IF computed.ret = PREDEFINED_OS[hit].hash
        THEN Result(computed.ev \o <<Log(LOG_INFO, "ISO validation passed")>>,
                    "passed", "none")
        ELSE Result(computed.ev
                    \o <<Log(LOG_WARNING, "ISO hash does not match expected value!"),
                         Ext("status_pane", "mismatch", selected_iso_path, <<>>)>>,
                    "mismatch", "none")

\* What requests.head can answer for a link: a status, or an exception.
ProbeAnswers ==
    { [raised |-> FALSE, status |-> 200],
      [raised |-> FALSE, status |-> 404],
      [raised |-> FALSE, status |-> 503],
      [raised |-> TRUE, status |-> 0] }

\* The revalidation keeping an entry whose probe raised.
Unreachable_by_status(answer) == ~answer.raised /\ answer.status # 200

\* The links validate_os_links and update_iso_links remove: the probe
\* raised, or its status is not 200.
Unreachable(answer) == answer.raised \/ answer.status # 200

\* The outcome of a probe as the trace holds it.
ProbeOutcome(answer) ==
    IF answer.raised THEN "raise"
    ELSE IF answer.status = 200 THEN "200"
    ELSE IF answer.status = 404 THEN "404"
    ELSE "other"

\* The probe of one entry and the line logged when the entry has to go,
\* in the words of validate_os_links (startup) or of update_iso_links.
ProbeTrace(entry, answer, startup) ==
    <<Ext("head", ProbeOutcome(answer), entry.url, entry.name)>>
    \o (IF ~Unreachable(answer) THEN <<>>
        ELSE IF answer.raised
        THEN <<Log(LOG_ERROR, IF startup
                              THEN "Error validating URL. Removing option."
                              ELSE "Error validating link. Removing option.")>>
        ELSE <<Log(LOG_WARNING, IF startup
                                THEN "Warning: URL returned status. Removing option."
                                ELSE "Link returned status. Removing option.")>>)

\* takeItem(0) whatever the name.
TakeItem_first(list, os_name) == IF list = <<>> THEN <<>> ELSE Tail(list)

\* distro_list.takeItem(i) for the first item with the name.
RECURSIVE TakeItem(_, _)
TakeItem(list, os_name) ==
    IF list = <<>> THEN <<>>
    ELSE IF Head(list) = os_name THEN Tail(list)
    ELSE <<Head(list)>> \o TakeItem(Tail(list), os_name)

\* PREDEFINED_OS.pop(os_name)
Pop(catalog, os_name) == SelectSeq(catalog, LAMBDA e : e.name # os_name)

\* VentoyFlasherGUI.validate_os_links: the entries of the catalog are
\* probed in order and the names to remove collected, then each is popped
\* from the catalog and taken from the list.  probe[i] answers entry i.
RECURSIVE ValidateFrom(_, _, _, _)
ValidateFrom(snapshot, probe, i, done) ==
    IF i > Len(snapshot) THEN done
    ELSE ValidateFrom(snapshot, probe, i + 1,
            [ev |-> done.ev \o ProbeTrace(snapshot[i], probe[i], TRUE),
             to_remove |-> IF Unreachable(probe[i])
                           THEN Append(done.to_remove, snapshot[i].name)
                           ELSE done.to_remove])

RECURSIVE RemoveAll(_, _, _)
RemoveAll(catalog, list, to_remove) ==
    IF to_remove = <<>> THEN [catalog |-> catalog, list |-> list]
    ELSE RemoveAll(Pop(catalog, Head(to_remove)), TakeItem(list, Head(to_remove)),
                   Tail(to_remove))

gui_validate_os_links(probe) ==
    LET found == ValidateFrom(PREDEFINED_OS, probe, 1, [ev |-> <<>>, to_remove |-> <<>>])
        left == RemoveAll(PREDEFINED_OS, distro_list, found.to_remove)
    IN  [ev |-> found.ev, catalog |-> left.catalog, list |-> left.list]

\* VentoyFlasherGUI.update_iso_links: the entries of a copy of the catalog
\* are probed in order and an unreachable one is popped and taken from the
\* list at once.
RECURSIVE UpdateFrom(_, _, _, _)
UpdateFrom(snapshot, probe, i, done) ==
    IF i > Len(snapshot) THEN done
    ELSE UpdateFrom(snapshot, probe, i + 1,
            IF Unreachable(probe[i])
            THEN [ev |-> done.ev \o ProbeTrace(snapshot[i], probe[i], FALSE),
                  catalog |-> Pop(done.catalog, snapshot[i].name),
                  list |-> TakeItem(done.list, snapshot[i].name)]
            ELSE [done EXCEPT !.ev = @ \o ProbeTrace(snapshot[i], probe[i], FALSE)])

gui_update_iso_links(probe) ==
    LET done == UpdateFrom(PREDEFINED_OS, probe, 1,
                           [ev |-> <<Log(LOG_INFO, "Updating ISO links...")>>,
                            catalog |-> PREDEFINED_OS, list |-> distro_list])
    IN  [done EXCEPT !.ev = @ \o <<Log(LOG_INFO, "ISO links update complete.")>>]

\* ------------------------------------------------------------ the machine
\* The names of a catalog, in order.
Names(catalog) == [i \in 1..Len(catalog) |-> catalog[i].name]

\* A catalog without the entries named in gone (PREDEFINED_OS.pop).
Without(catalog, gone) == SelectSeq(catalog, LAMBDA e : e.name \notin gone)

\* The state after VentoyFlasherGUI.__init__ (and, with last = "initUI",
\* the state in it before validate_os_links): dd mode, no image, level INFO,
\* the device selector filled by populate_usb_devices on Linux (which
\* logs that it did; the DEBUG line of FlashUtility.__init__ is filtered),
\* the working directory made, and the catalog and the list widget as
\* validate_os_links leaves them when every link answers 200.
Constructed(last) ==
    /\ os_type \in Platforms
    /\ \E c \in Catalogs :
          /\ PREDEFINED_OS = Without(c, {})
          /\ distro_list = Names(Without(c, {}))
    /\ selected_iso_path = NoPath
    /\ dd_checked = TRUE
    /\ ventoy_checked = FALSE
    /\ usb_device_enabled = TRUE
    /\ refresh_enabled = TRUE
    /\ ventoy_mount_enabled = FALSE
    /\ disks \in IF os_type = "Linux" THEN { <<>>, <<Stick>> } ELSE { <<>> }
    /\ usb_device_items = [i \in 1..Len(disks) |-> device_entry(disks[i])]
    /\ usb_device_text = IF usb_device_items = <<>> THEN <<>> ELSE usb_device_items[1]
    /\ usb_details_output = <<>>
    /\ app_events = <<>>
    /\ app_returned = Ret(None, NoPath)
    /\ ventoy_mount_text = <<>>
    /\ log_level = LOG_INFO
    /\ iso_verdict = "none"
    /\ handler = last
    /\ events = <<>>
    /\ raised = "none"
    /\ log_output = IF os_type = "Linux"
                    THEN log_message(<<>>, "USB devices list updated.", LOG_INFO, LOG_INFO)
                    ELSE <<>>
    /\ returned = Ret(None, NoPath)
    /\ created = {TempRoot}
    /\ app = "running"
    /\ progress = Idle
    /\ cancel_requested = FALSE

Init == Constructed("__init__")

\* The user edits the device selector (an editable combo box).
EditDeviceText ==
    /\ handler' = "edit"
    /\ usb_device_enabled
    /\ \E t \in DeviceTexts : usb_device_text' = t
    /\ events' = <<>>
    /\ raised' = "none"
    /\ UNCHANGED <<catalog_vars, mode_vars, image_vars, ventoy_mount_text>>

\* The user edits the mount-point input.
EditMountText ==
    /\ handler' = "edit"
    /\ ventoy_mount_enabled
    /\ \E t \in MountTexts : ventoy_mount_text' = t
    /\ events' = <<>>
    /\ raised' = "none"
    /\ UNCHANGED <<catalog_vars, mode_vars, image_vars, usb_device_text>>

\* toggle_mode leaving the Refresh button as it is.
toggle_mode_without_refresh ==
    /\ handler' = "toggle_mode"
    /\ \E ventoy \in BOOLEAN :
          /\ ventoy_checked' = ventoy
          /\ dd_checked' = ~ventoy
    /\ usb_device_enabled' = ~ventoy_checked'
    /\ ventoy_mount_enabled' = ventoy_checked'
    /\ events' = <<>>
    /\ raised' = "none"
    /\ UNCHANGED <<catalog_vars, text_vars, image_vars, refresh_enabled>>

\* VentoyFlasherGUI.toggle_mode, after a click on one of the two radio
\* buttons of the exclusive button group.
toggle_mode ==
    /\ handler' = "toggle_mode"
    /\ \E ventoy \in BOOLEAN :
          /\ ventoy_checked' = ventoy
          /\ dd_checked' = ~ventoy
    /\ usb_device_enabled' = ~ventoy_checked'
    /\ refresh_enabled' = ~ventoy_checked'
    /\ ventoy_mount_enabled' = ventoy_checked'
    /\ events' = <<>>
    /\ raised' = "none"
    /\ UNCHANGED <<catalog_vars, text_vars, image_vars>>

\* VentoyFlasherGUI.select_iso_file: the dialog returns a path, or the
\* empty string when it is cancelled.
select_iso_file ==
    /\ handler' = "select_iso_file"
    /\ \E file_path \in LocalFiles \cup {NoPath} :
          IF file_path # NoPath
          THEN /\ selected_iso_path' = file_path
               /\ iso_verdict' = "none"
               /\ events' = <<Log(LOG_INFO, "Selected ISO file")>>
          ELSE /\ events' = <<>>
               /\ UNCHANGED image_vars
    /\ raised' = "none"
    /\ UNCHANGED <<catalog_vars, mode_vars, text_vars>>

\* A click on an item of the predefined-OS list.
select_distro ==
    /\ handler' = "select_distro"
    /\ \E i \in 1..Len(distro_list), dl \in DownloadOutcomes :
          LET done == gui_select_distro(distro_list[i], dl)
          IN  /\ selected_iso_path' = done.ret
              /\ iso_verdict' = IF done.ret # selected_iso_path \/ dl = "ok"
                                THEN "none" ELSE iso_verdict
              /\ events' = done.ev
              /\ raised' = done.exc
    /\ UNCHANGED <<catalog_vars, mode_vars, text_vars>>

\* A click on "Validate ISO".
validate_iso ==
    /\ handler' = "validate_iso"
    /\ \E digest \in Digests \cup {None} :
          LET done == gui_validate_iso(digest)
          IN  /\ iso_verdict' = IF selected_iso_path = NoPath THEN iso_verdict ELSE done.ret
              /\ events' = done.ev
              /\ raised' = done.exc
    /\ UNCHANGED <<catalog_vars, mode_vars, text_vars, selected_iso_path>>

\* What the outside world can answer during one flash: the answers that
\* are read only after an earlier failure are left at their good value.
FlashEnvs ==
    { [rc |-> rc, mounted |-> TRUE, cp |-> "ok"] : rc \in CmdOutcomes }
    \cup { [rc |-> "ok", mounted |-> FALSE, cp |-> "ok"],
           [rc |-> "ok", mounted |-> TRUE, cp |-> "oserror"] }

\* The same for one loader installation.
InstallEnvs ==
    { [dl |-> dl, mk |-> "ok", ex |-> "ok", found |-> TRUE, rc |-> "ok"] :
        dl \in DownloadOutcomes }
    \cup { [dl |-> "ok", mk |-> "oserror", ex |-> "ok", found |-> TRUE, rc |-> "ok"],
           [dl |-> "ok", mk |-> "ok", ex |-> "corrupt", found |-> TRUE, rc |-> "ok"],
           [dl |-> "ok", mk |-> "ok", ex |-> "ok", found |-> FALSE, rc |-> "ok"] }
    \cup { [dl |-> "ok", mk |-> "ok", ex |-> "ok", found |-> TRUE, rc |-> rc] :
             rc \in CmdOutcomes }

\* A click on "Flash USB".
flash_usb ==
    /\ handler' = "flash_usb"
    /\ \E env \in FlashEnvs :
          LET done == gui_flash_usb(env.rc, env.mounted, env.cp)
          IN  /\ events' = done.ev
              /\ raised' = done.exc
    /\ UNCHANGED <<catalog_vars, mode_vars, text_vars, image_vars>>

\* A click on "Install Ventoy".
click_install_ventoy ==
    /\ handler' = "install_ventoy"
    /\ \E env \in InstallEnvs :
          events' = gui_install_ventoy(env.dl, env.mk, env.ex, env.found, env.rc)
    /\ raised' = "none"
    /\ UNCHANGED <<catalog_vars, mode_vars, text_vars, image_vars>>

\* A click on "Reformat USB".
click_reformat_usb ==
    /\ handler' = "reformat_usb"
    /\ \E scheme \in Schemes, reply \in Replies, rc \in CmdOutcomes :
          LET done == gui_reformat_usb(scheme, reply, rc)
          IN  /\ events' = done.ev
              /\ raised' = done.exc
    /\ UNCHANGED <<catalog_vars, mode_vars, text_vars, image_vars>>

\* The window under its handlers, seen from outside: what each handler
\* does to the widgets, the image, the catalog and the outside world.
Next ==
    \/ EditDeviceText /\ UNCHANGED side_vars
    \/ EditMountText /\ UNCHANGED side_vars
    \/ toggle_mode /\ UNCHANGED side_vars
    \/ select_iso_file /\ UNCHANGED side_vars
    \/ select_distro /\ UNCHANGED side_vars
    \/ validate_iso /\ UNCHANGED side_vars
    \/ flash_usb /\ UNCHANGED side_vars
    \/ click_install_ventoy /\ UNCHANGED side_vars
    \/ click_reformat_usb /\ UNCHANGED side_vars

Spec == Init /\ [][Next]_vars

\* ------------------------------------------------------ the device list
\* The Refresh button: the selector holds the entries of the disks of the
\* listing, and shows the first of them.
populate_usb_devices ==
    /\ handler' = "populate_usb_devices"
    /\ refresh_enabled
    /\ \E rc \in CmdOutcomes :
          LET done == gui_populate_usb_devices(disks, rc)
          IN  /\ usb_device_items' = done.ret
              /\ usb_device_text' = IF done.ret = <<>> THEN <<>> ELSE done.ret[1]
              /\ events' = done.ev
              /\ raised' = done.exc
    /\ UNCHANGED <<catalog_vars, mode_vars, image_vars, ventoy_mount_text,
                   disks, usb_details_output>>

\* The user picks an entry of the selector.
SelectDevice ==
    /\ handler' = "edit"
    /\ usb_device_enabled
    /\ \E i \in 1..Len(usb_device_items) : usb_device_text' = usb_device_items[i]
    /\ events' = <<>>
    /\ raised' = "none"
    /\ UNCHANGED <<catalog_vars, mode_vars, image_vars, ventoy_mount_text, device_vars>>

\* Devices are plugged in and pulled out while the window is open; the
\* window is not told.
Replug ==
    /\ \E listing \in Listings \ {disks} : disks' = listing
    /\ UNCHANGED <<window_vars, handler, events, raised, usb_device_items,
                   usb_details_output>>

\* A click on "Get USB Details".
click_get_usb_details ==
    /\ handler' = "get_usb_details"
    /\ \E rc \in CmdOutcomes :
          LET done == gui_get_usb_details(rc)
          IN  /\ usb_details_output' = done.ret
              /\ events' = done.ev
              /\ raised' = done.exc
    /\ UNCHANGED <<window_vars, disks, usb_device_items>>

\* The window on a Linux machine whose devices come and go: the list is
\* read at startup and at each Refresh, and the handlers that act on a
\* device take it from the text of the selector.
NextDevices ==
    \/ populate_usb_devices /\ UNCHANGED <<log_output, returned, created, app, step_vars, twin_vars>>
    \/ SelectDevice /\ UNCHANGED <<log_output, returned, created, app, step_vars, twin_vars>>
    \/ Replug /\ UNCHANGED <<log_output, returned, created, app, step_vars, twin_vars>>
    \/ click_get_usb_details /\ UNCHANGED <<log_output, returned, created, app, step_vars, twin_vars>>
    \/ EditDeviceText /\ UNCHANGED side_vars
    \/ select_iso_file /\ UNCHANGED side_vars
    \/ flash_usb /\ UNCHANGED side_vars
    \/ click_reformat_usb /\ UNCHANGED side_vars

SpecDevices == Init /\ [][NextDevices]_vars

\* ------------------------------------------- FlashUtility, method by method
\* The methods of FlashUtility called one at a time with any argument, as
\* the window or another client of the class may call them, and
\* validate_iso with the file read block by block.  Every call starts its
\* trace with the call made.
ArchivePaths ==
    { Join(temp_dir, <<"ventoy-1.0.90-linux", ".tar.gz">>),
      Join(temp_dir, <<"ventoy-1.0.90-windows", ".zip">>),
      Join(temp_dir, <<"Arch", " ", "Linux", ".iso">>),
      Join("/home/user", <<"backup", ".tar">>),
      Join("/home/user", <<"notes", ".zip", ".bak">>),
      Join("/home/user", <<"ARCHIVE", ".ZIP">>),
      Join("/home/user", <<"archive">>) }

\* Destination names of a download: the two kinds the window passes, one
\* with a parent component and one that starts at the root.
DestNames ==
    { <<"Arch", " ", "Linux", ".iso">>,
      <<"ventoy-1.0.90-linux", ".tar.gz">>,
      <<"..", "/", "Arch", " ", "Linux", ".iso">>,
      <<"/", "home", "/", "user", "/", "Arch", " ", "Linux", ".iso">> }

Urls == { ArchEntry.url }

Devices == { DevicePath(Stick.name) }

Called(name, path, arg) == Ext("call", name, path, arg)

\* What the caller holds after a call: nothing when an exception escaped.
Returned(done, value, path) ==
    IF done.exc = "none" THEN Ret(value, path) ELSE Ret("", NoPath)

\* The files and directories a trace made: open(dest_path, "wb"),
\* os.makedirs(..., exist_ok=True) and the directory an archive is
\* unpacked to.
Made(trace) ==
    { trace[i].p : i \in { j \in 1..Len(trace) :
                              trace[j].k \in {"open", "makedirs"} /\ trace[j].r = "ok" } }
    \cup (IF \E i \in 1..Len(trace) :
                 trace[i].k \in {"tarfile", "zipfile"} /\ trace[i].r = "ok"
          THEN {Join(temp_dir, <<"ventoy_extracted">>)}
          ELSE {})

call_extract_archive ==
    /\ handler' = "FlashUtility.extract_archive"
    /\ \E archive_path \in ArchivePaths, ex \in ExtractOutcomes :
          LET done == extract_archive(archive_path,
                                      Join(temp_dir, <<"ventoy_extracted">>), ex)
          IN  /\ events' = <<Called("extract_archive", archive_path, <<ex>>)>> \o done.ev
              /\ returned' = Returned(done, IF done.ret THEN "True" ELSE "False", NoPath)
              /\ raised' = done.exc
    /\ UNCHANGED window_vars

call_download_file ==
    /\ handler' = "FlashUtility.download_file"
    /\ \E url \in Urls, dest_filename \in DestNames, dl \in DownloadOutcomes :
          LET done == download_file(url, dest_filename, dl)
          IN  /\ events' = <<Called("download_file", url, dest_filename)>> \o done.ev
              /\ returned' = Returned(done, IF done.ret = NoPath THEN None ELSE "path",
                                      done.ret)
              /\ raised' = done.exc
    /\ UNCHANGED window_vars

call_run_dd_command ==
    /\ handler' = "FlashUtility.run_dd_command"
    /\ \E iso_path \in LocalFiles, usb_device \in Devices, rc \in CmdOutcomes :
          events' = <<Called("run_dd_command", iso_path, usb_device)>>
                    \o run_dd_command(iso_path, usb_device, rc)
    /\ returned' = Ret(None, NoPath)
    /\ raised' = "none"
    /\ UNCHANGED window_vars

call_reformat_usb ==
    /\ handler' = "FlashUtility.reformat_usb"
    /\ \E usb_device \in Devices, scheme \in Schemes \cup {<<"exfat">>},
          rc \in CmdOutcomes :
          events' = <<Called("reformat_usb", NoPath, usb_device)>>
                    \o reformat_usb(usb_device, scheme, rc)
    /\ returned' = Ret(None, NoPath)
    /\ raised' = "none"
    /\ UNCHANGED window_vars

call_get_usb_details ==
    /\ handler' = "FlashUtility.get_usb_details"
    /\ \E usb_device \in Devices, rc \in CmdOutcomes :
          LET done == get_usb_details(usb_device, rc)
          IN  /\ events' = <<Called("get_usb_details", NoPath, usb_device)>> \o done.ev
              /\ returned' = Returned(done, done.ret, NoPath)
              /\ raised' = done.exc
    /\ UNCHANGED window_vars

call_compute_sha256 ==
    /\ handler' = "FlashUtility.compute_sha256"
    /\ \E file_path \in LocalFiles, contents \in FileContents, opened \in BOOLEAN :
          \E good_reads \in 0..(Len(contents) + 1) :
              LET body == sha256_of(file_path, contents, opened, good_reads)
                  done == compute_sha256(file_path,
                                         IF body.exc = "none" THEN body.ret ELSE None)
              IN  /\ events' = <<Called("compute_sha256", file_path, <<>>)>>
                                \o body.ev \o done.ev
                  /\ returned' = Returned(done, done.ret, NoPath)
                  /\ raised' = done.exc
    /\ UNCHANGED window_vars

\* A click on "Validate ISO", the image read block by block.
validate_iso_reading ==
    /\ handler' = "validate_iso"
    /\ \E contents \in FileContents, opened \in BOOLEAN :
          \E good_reads \in 0..(Len(contents) + 1) :
              LET body == sha256_of(selected_iso_path, contents, opened, good_reads)
                  done == gui_validate_iso(IF body.exc = "none" THEN body.ret ELSE None)
              IN  /\ iso_verdict' = IF selected_iso_path = NoPath
                                    THEN iso_verdict ELSE done.ret
                  /\ events' = (IF selected_iso_path = NoPath THEN <<>> ELSE body.ev)
                                \o done.ev
                  /\ raised' = done.exc
    /\ UNCHANGED <<catalog_vars, mode_vars, text_vars, selected_iso_path>>

\* What each call returns and does to the outside world.
NextCalls ==
    \/ call_extract_archive /\ UNCHANGED <<log_output, created, app, step_vars, device_vars, twin_vars>>
    \/ call_download_file /\ UNCHANGED <<log_output, created, app, step_vars, device_vars, twin_vars>>
    \/ call_run_dd_command /\ UNCHANGED <<log_output, created, app, step_vars, device_vars, twin_vars>>
    \/ call_reformat_usb /\ UNCHANGED <<log_output, created, app, step_vars, device_vars, twin_vars>>
    \/ call_get_usb_details /\ UNCHANGED <<log_output, created, app, step_vars, device_vars, twin_vars>>
    \/ call_compute_sha256 /\ UNCHANGED <<log_output, created, app, step_vars, device_vars, twin_vars>>
    \/ select_iso_file /\ UNCHANGED side_vars
    \/ validate_iso_reading /\ UNCHANGED side_vars

SpecCalls == Init /\ [][NextCalls]_vars

\* ------------------------------------- FlashUtility of application.py
\* application.py holds a class FlashUtility of its own.  Its methods have
\* the statements of the methods of backend.py, docstrings and comments
\* apart, and read the globals of application.py.
app_run_dd_command(iso_path, usb_device, rc) == run_dd_command(iso_path, usb_device, rc)

app_download_file(url, dest_filename, dl) == download_file(url, dest_filename, dl)

app_extract_archive(archive_path, extract_to, ex) ==
    extract_archive(archive_path, extract_to, ex)

\* application.py defines no VENTOY_URLS: the first statement of the try
\* block raises NameError, which the last except clause logs.
app_install_ventoy(usb_device, dl, mk, ex, found, rc) ==
    <<Log(LOG_ERROR, "Unexpected error during Ventoy installation")>>

app_copy_iso_to_ventoy(iso_path, ventoy_mount_point, mounted, cp) ==
    copy_iso_to_ventoy(iso_path, ventoy_mount_point, mounted, cp)

app_reformat_usb(usb_device, scheme, rc) == reformat_usb(usb_device, scheme, rc)

app_get_usb_details(usb_device, rc) == get_usb_details(usb_device, rc)

app_compute_sha256(file_path, digest) == compute_sha256(file_path, digest)

app_cleanup(exists, rm) == cleanup(exists, rm)

\* One call made on both classes with the same arguments and the same
\* answers of the outside world.
both_run_dd_command ==
    /\ handler' = "FlashUtility.run_dd_command"
    /\ \E iso_path \in LocalFiles, usb_device \in Devices, rc \in CmdOutcomes :
          /\ events' = <<Called("run_dd_command", iso_path, usb_device)>>
                       \o run_dd_command(iso_path, usb_device, rc)
          /\ app_events' = <<Called("run_dd_command", iso_path, usb_device)>>
                           \o app_run_dd_command(iso_path, usb_device, rc)
    /\ returned' = Ret(None, NoPath)
    /\ app_returned' = Ret(None, NoPath)
    /\ raised' = "none"
    /\ UNCHANGED window_vars

both_download_file ==
    /\ handler' = "FlashUtility.download_file"
    /\ \E url \in Urls, dest_filename \in DestNames, dl \in DownloadOutcomes :
          LET done == download_file(url, dest_filename, dl)
              twin == app_download_file(url, dest_filename, dl)
          IN  /\ events' = <<Called("download_file", url, dest_filename)>> \o done.ev
              /\ app_events' = <<Called("download_file", url, dest_filename)>> \o twin.ev
              /\ returned' = Returned(done, IF done.ret = NoPath THEN None ELSE "path",
                                      done.ret)
              /\ app_returned' = Returned(twin, IF twin.ret = NoPath THEN None ELSE "path",
                                          twin.ret)
              /\ raised' = done.exc
    /\ UNCHANGED window_vars

both_extract_archive ==
    /\ handler' = "FlashUtility.extract_archive"
    /\ \E archive_path \in ArchivePaths, ex \in ExtractOutcomes :
          LET to == Join(temp_dir, <<"ventoy_extracted">>)
              done == extract_archive(archive_path, to, ex)
              twin == app_extract_archive(archive_path, to, ex)
          IN  /\ events' = <<Called("extract_archive", archive_path, <<ex>>)>> \o done.ev
              /\ app_events' = <<Called("extract_archive", archive_path, <<ex>>)>> \o twin.ev
              /\ returned' = Returned(done, IF done.ret THEN "True" ELSE "False", NoPath)
              /\ app_returned' = Returned(twin, IF twin.ret THEN "True" ELSE "False", NoPath)
              /\ raised' = done.exc
    /\ UNCHANGED window_vars

both_install_ventoy ==
    /\ handler' = "FlashUtility.install_ventoy"
    /\ \E usb_device \in Devices, env \in InstallEnvs :
          /\ events' = <<Called("install_ventoy", NoPath, usb_device)>>
                       \o install_ventoy(usb_device, env.dl, env.mk, env.ex, env.found, env.rc)
          /\ app_events' = <<Called("install_ventoy", NoPath, usb_device)>>
                           \o app_install_ventoy(usb_device, env.dl, env.mk, env.ex,
                                                 env.found, env.rc)
    /\ returned' = Ret(None, NoPath)
    /\ app_returned' = Ret(None, NoPath)
    /\ raised' = "none"
    /\ UNCHANGED window_vars

both_copy_iso_to_ventoy ==
    /\ handler' = "FlashUtility.copy_iso_to_ventoy"
    /\ \E iso_path \in LocalFiles, env \in FlashEnvs :
          LET mount == Strip(<<" ", "/mnt/ventoy", " ">>)
          IN  /\ events' = <<Called("copy_iso_to_ventoy", iso_path, mount)>>
                           \o copy_iso_to_ventoy(iso_path, mount, env.mounted, env.cp)
              /\ app_events' = <<Called("copy_iso_to_ventoy", iso_path, mount)>>
                               \o app_copy_iso_to_ventoy(iso_path, mount, env.mounted, env.cp)
    /\ returned' = Ret(None, NoPath)
    /\ app_returned' = Ret(None, NoPath)
    /\ raised' = "none"
    /\ UNCHANGED window_vars

both_reformat_usb ==
    /\ handler' = "FlashUtility.reformat_usb"
    /\ \E usb_device \in Devices, scheme \in Schemes \cup {<<"exfat">>},
          rc \in CmdOutcomes :
          /\ events' = <<Called("reformat_usb", NoPath, usb_device)>>
                       \o reformat_usb(usb_device, scheme, rc)
          /\ app_events' = <<Called("reformat_usb", NoPath, usb_device)>>
                           \o app_reformat_usb(usb_device, scheme, rc)
    /\ returned' = Ret(None, NoPath)
    /\ app_returned' = Ret(None, NoPath)
    /\ raised' = "none"
    /\ UNCHANGED window_vars

both_get_usb_details ==
    /\ handler' = "FlashUtility.get_usb_details"
    /\ \E usb_device \in Devices, rc \in CmdOutcomes :
          LET done == get_usb_details(usb_device, rc)
              twin == app_get_usb_details(usb_device, rc)
          IN  /\ events' = <<Called("get_usb_details", NoPath, usb_device)>> \o done.ev
              /\ app_events' = <<Called("get_usb_details", NoPath, usb_device)>> \o twin.ev
              /\ returned' = Returned(done, done.ret, NoPath)
              /\ app_returned' = Returned(twin, twin.ret, NoPath)
              /\ raised' = done.exc
    /\ UNCHANGED window_vars

both_compute_sha256 ==
    /\ handler' = "FlashUtility.compute_sha256"
    /\ \E file_path \in LocalFiles, digest \in Digests \cup {None} :
          LET done == compute_sha256(file_path, digest)
              twin == app_compute_sha256(file_path, digest)
          IN  /\ events' = <<Called("compute_sha256", file_path, <<>>)>> \o done.ev
              /\ app_events' = <<Called("compute_sha256", file_path, <<>>)>> \o twin.ev
              /\ returned' = Returned(done, done.ret, NoPath)
              /\ app_returned' = Returned(twin, twin.ret, NoPath)
              /\ raised' = done.exc
    /\ UNCHANGED window_vars

both_cleanup ==
    /\ handler' = "FlashUtility.cleanup"
    /\ \E exists \in BOOLEAN, rm \in FileOutcomes :
          /\ events' = <<Called("cleanup", TempRoot, <<>>)>> \o cleanup(exists, rm)
          /\ app_events' = <<Called("cleanup", TempRoot, <<>>)>> \o app_cleanup(exists, rm)
    /\ returned' = Ret(None, NoPath)
    /\ app_returned' = Ret(None, NoPath)
    /\ raised' = "none"
    /\ UNCHANGED window_vars

\* Any sequence of calls, made on the two classes side by side.
NextTwins ==
    \/ both_run_dd_command /\ UNCHANGED <<log_output, created, app, step_vars, device_vars>>
    \/ both_download_file /\ UNCHANGED <<log_output, created, app, step_vars, device_vars>>
    \/ both_extract_archive /\ UNCHANGED <<log_output, created, app, step_vars, device_vars>>
    \/ both_install_ventoy /\ UNCHANGED <<log_output, created, app, step_vars, device_vars>>
    \/ both_copy_iso_to_ventoy /\ UNCHANGED <<log_output, created, app, step_vars, device_vars>>
    \/ both_reformat_usb /\ UNCHANGED <<log_output, created, app, step_vars, device_vars>>
    \/ both_get_usb_details /\ UNCHANGED <<log_output, created, app, step_vars, device_vars>>
    \/ both_compute_sha256 /\ UNCHANGED <<log_output, created, app, step_vars, device_vars>>
    \/ both_cleanup /\ UNCHANGED <<log_output, created, app, step_vars, device_vars>>

SpecTwins == Init /\ [][NextTwins]_vars

\* ------------------------------------------------------ reading a trace
\* The positions of a trace, and the tests the properties below use.
Pos(t) == 1..Len(t)

Count(t, kind) == Cardinality({ i \in Pos(t) : t[i].k = kind })

LogCount(t, level) == Cardinality({ i \in Pos(t) : t[i].k = "log" /\ t[i].lvl = level })

\* The operations that act on the target device or on the loader volume.
DeviceOps == {"dd", "ventoy", "parted", "copy2"}

\* The device identity flash_usb and reformat_usb take from the selector.
FirstToken == Split(Strip(usb_device_text))[1]

\* The entry validate_iso compares the image with carries no hash, or no
\* entry matches the image.
NoExpectedHash(path) ==
    \/ FirstMatch(Basename(path)) = 0
    \/ PREDEFINED_OS[FirstMatch(Basename(path))].hash = None

\* The states of section 4.4 a direct-write flash went through, read from
\* its trace: Resolving when the flash starts, Writing at the dd command,
\* Validating at validate_operation, and the terminal state.
StateOf(e) ==
    CASE e.k = "log" /\ e.m = "Starting dd flashing process..." -> "Resolving"
      [] e.k = "dd" -> "Writing"
      [] e.k = "validate_operation" -> "Validating"
      [] OTHER -> ""

RECURSIVE Visited(_)
Visited(t) ==
    IF t = <<>> THEN <<>>
    ELSE IF StateOf(Head(t)) = "" THEN Visited(Tail(t))
    ELSE <<StateOf(Head(t))>> \o Visited(Tail(t))

StatesVisited ==
    <<"Idle">> \o Visited(events)
    \o <<IF \E i \in Pos(events) : events[i].k = "dd" /\ events[i].r = "ok"
         THEN "Succeeded" ELSE "Failed">>

\* ----------------------------------------------------------------- claims
\* C1: once validate_iso has reported a hash mismatch for the selected
\* image, no handler runs the raw-write or the loader-install primitive on
\* that image.
C1_IntegrityGate ==
    iso_verdict = "mismatch" =>
        \A i \in Pos(events) :
            ~(events[i].k \in {"dd", "ventoy"} /\ events[i].p = selected_iso_path)

\* A step of a loader installation before the installer command failed.
StepFailed(t) ==
    \E i \in Pos(t) :
        /\ t[i].k \in {"get", "raise_for_status", "open", "copyfileobj", "makedirs",
                       "tarfile", "zipfile", "exists"}
        /\ t[i].r # "ok"

\* C2: in a loader installation the installer command runs only after a
\* completed download, a successful extraction and a found installer, in
\* that order; when one of the steps before it fails, nothing is executed
\* against the device.
C2_InstallOrder ==
    handler = "install_ventoy" =>
        /\ \A i \in Pos(events) :
              events[i].k = "ventoy" =>
                  \E a, b, c \in Pos(events) :
                      /\ a < b /\ b < c /\ c < i
                      /\ events[a].k = "copyfileobj" /\ events[a].r = "ok"
                      /\ events[b].k \in {"tarfile", "zipfile"} /\ events[b].r = "ok"
                      /\ events[c].k = "exists" /\ events[c].r = "ok"
        /\ StepFailed(events) => \A i \in Pos(events) : events[i].k \notin DeviceOps
        /\ raised = "none"

C2_Witness ==
    /\ handler = "install_ventoy"
    /\ \E i \in Pos(events) : events[i].k = "ventoy"

\* C3: in a direct-write flash validate_operation is entered only after the
\* write command succeeded.
C3_ValidatingAfterSuccess ==
    (handler = "flash_usb" /\ dd_checked) =>
        \A i \in Pos(events) :
            events[i].k = "validate_operation" =>
                \E j \in Pos(events) : j < i /\ events[j].k = "dd" /\ events[j].r = "ok"

\* C4: a flash started without an image, or in dd mode with an empty or
\* blank device selection, logs one WARNING, runs nothing else and lets no
\* exception escape.
C4_ValidationError ==
    (/\ handler = "flash_usb"
     /\ \/ selected_iso_path = NoPath
        \/ dd_checked /\ Strip(usb_device_text) = <<>>) =>
        /\ raised = "none"
        /\ Len(events) = 1
        /\ events[1].k = "log" /\ events[1].lvl = LOG_WARNING

C6_ScenarioA ==
    (/\ handler = "flash_usb"
     /\ dd_checked
     /\ selected_iso_path \in LocalFiles
     /\ NoExpectedHash(selected_iso_path)
     /\ \E i \in Pos(events) : events[i].k = "dd" /\ events[i].r = "ok") =>
        /\ StatesVisited = <<"Idle", "Resolving", "Writing", "Validating", "Succeeded">>
        /\ LogCount(events, LOG_WARNING) = 1

\* What a flash does in dd mode: dd on the selected image and device only.
DdModeDispatch ==
    dd_checked =>
        \A i \in Pos(events) :
            /\ events[i].k \notin {"copy2", "ventoy"}
            /\ events[i].k = "dd" =>
                  /\ events[i].p = selected_iso_path
                  /\ events[i].d = FirstToken

\* C7 as claimed: a flash in loader mode installs the loader and only then
\* copies the image; a flash in dd mode runs dd on the selected image and
\* the selected device and never copies.
C7_InstallThenCopy ==
    handler = "flash_usb" =>
        /\ DdModeDispatch
        /\ ventoy_checked =>
              \A i \in Pos(events) :
                  events[i].k = "copy2" =>
                      \E j \in Pos(events) : j < i /\ events[j].k = "ventoy"

\* C7 as amended: a flash in loader mode only copies the selected image to
\* the trimmed mount point and never runs the loader installer; a flash in
\* dd mode runs dd on the selected image and the selected device and never
\* copies.
C7_CopyOnly ==
    handler = "flash_usb" =>
        /\ DdModeDispatch
        /\ ventoy_checked =>
              \A i \in Pos(events) :
                  /\ events[i].k \notin {"dd", "ventoy"}
                  /\ events[i].k = "copy2" =>
                        /\ events[i].p = selected_iso_path
                        /\ events[i].d = Strip(ventoy_mount_text)

C7_Witness ==
    /\ handler = "flash_usb"
    /\ ventoy_checked
    /\ \E i \in Pos(events) : events[i].k = "copy2" /\ events[i].r = "ok"

\* The request of a download failed; what the trace then has to look like.
NetworkFailed(t) ==
    \E i \in Pos(t) : t[i].k \in {"get", "raise_for_status"} /\ t[i].r \in NetworkFailures

EndsAfterDownloading(t) ==
    \A i \in Pos(t) :
        (t[i].k \in {"get", "raise_for_status"} /\ t[i].r \in NetworkFailures) =>
            /\ i < Len(t)
            /\ t[i + 1] = Log(LOG_ERROR, "Error downloading file")
            /\ \A j \in Pos(t) : j > i => t[j].k = "log" /\ t[j].lvl = LOG_ERROR
            /\ \A j \in Pos(t) : t[j].k \notin {"open", "copyfileobj", "makedirs", "tarfile",
                                                "zipfile", "exists"} \cup DeviceOps

\* C8: when the request of a download fails (connection refused, timeout,
\* HTTP error status), download_file logs the failure at ERROR and returns
\* no path, and the handler that asked for it (loader installation, catalog
\* selection) ends there: it logs its failure, opens, extracts and installs
\* nothing, lets no exception escape and selects nothing.
C8_NetworkFailure ==
    [][(handler' \in {"select_distro", "install_ventoy"} /\ NetworkFailed(events')) =>
          /\ EndsAfterDownloading(events')
          /\ raised' = "none"
          /\ handler' = "select_distro" => UNCHANGED image_vars]_vars

C8_Witness ==
    /\ handler = "install_ventoy"
    /\ NetworkFailed(events)
    /\ events[Len(events)] = Log(LOG_ERROR, "Ventoy download failed.")

\* The destination file of a download could not be opened or written.
LocalWriteFailed(t) ==
    \E i \in Pos(t) :
        t[i].k \in {"open", "copyfileobj"} /\ t[i].r \in {"open_denied", "disk_full"}

\* C9: when the destination file cannot be opened or written, download_file
\* reports the failure as it reports a network failure: it logs it at ERROR
\* and returns no path, so that no exception reaches select_distro or
\* install_ventoy.
C9_IOErrorReported ==
    (handler \in {"select_distro", "install_ventoy"} /\ LocalWriteFailed(events)) =>
        /\ raised = "none"
        /\ \E i \in Pos(events) : events[i] = Log(LOG_ERROR, "Error downloading file")

\* C10: no handler retries: one handler run issues at most one request and
\* executes each external command or copy at most once, also after a
\* failure.
C10_NoRetry ==
    \A kind \in {"get", "open", "copyfileobj"} \cup DeviceOps : Count(events, kind) <= 1

C10_Witness ==
    /\ handler = "flash_usb"
    /\ \E i \in Pos(events) : events[i].k = "dd" /\ events[i].r = "nonzero"

\* ------------------------------------------------- the catalog revalidated
\* VentoyFlasherGUI.__init__ calls validate_os_links once, after initUI.
validate_os_links ==
    /\ handler = "initUI"
    /\ handler' = "validate_os_links"
    /\ \E probe \in [1..Len(PREDEFINED_OS) -> ProbeAnswers] :
          LET done == gui_validate_os_links(probe)
          IN  /\ PREDEFINED_OS' = done.catalog
              /\ distro_list' = done.list
              /\ events' = done.ev
    /\ raised' = "none"
    /\ UNCHANGED <<os_type, log_level, mode_vars, text_vars, image_vars>>

\* The entry "Update ISO Links" of the menu made at the end of __init__.
update_iso_links ==
    /\ handler # "initUI"
    /\ handler' = "update_iso_links"
    /\ \E probe \in [1..Len(PREDEFINED_OS) -> ProbeAnswers] :
          LET done == gui_update_iso_links(probe)
          IN  /\ PREDEFINED_OS' = done.catalog
              /\ distro_list' = done.list
              /\ events' = done.ev
    /\ raised' = "none"
    /\ UNCHANGED <<os_type, log_level, mode_vars, text_vars, image_vars>>

NextCatalog ==
    \/ validate_os_links /\ UNCHANGED side_vars
    \/ update_iso_links /\ UNCHANGED side_vars

\* __init__ after initUI and FlashUtility(), before validate_os_links.
InitStartup == Constructed("initUI")

SpecCatalog == InitStartup /\ [][NextCatalog]_vars

\* ------------------------------------------------- a click on any item
\* The names the list widget has at the start.
ItemNames == { ArchEntry.name, NetBSDEntry(None).name }

\* select_distro called with an item of any name the list had at the
\* start, in the catalog still or not.
call_select_distro ==
    /\ handler' = "select_distro"
    /\ \E os_name \in ItemNames, dl \in DownloadOutcomes :
          LET done == gui_select_distro(os_name, dl)
          IN  /\ selected_iso_path' = done.ret
              /\ iso_verdict' = IF done.ret # selected_iso_path \/ dl = "ok"
                                THEN "none" ELSE iso_verdict
              /\ events' = done.ev
              /\ raised' = done.exc
    /\ UNCHANGED <<catalog_vars, mode_vars, text_vars>>

\* The catalog shrinks under Update ISO Links while images are picked
\* from the file dialog and from the list.
NextSelect ==
    \/ update_iso_links /\ UNCHANGED side_vars
    \/ select_iso_file /\ UNCHANGED side_vars
    \/ call_select_distro /\ UNCHANGED side_vars

SpecSelect == Init /\ [][NextSelect]_vars

\* ------------------------------------------------------------ the log pane
\* The levels of the Logging menu.
Levels == {LOG_DEBUG, LOG_INFO, LOG_WARNING, LOG_ERROR}

\* The handlers below run while the pane holds fewer lines than this.
MaxLog == 3

\* The message set_log_level logs for a level.
LevelSet(level) ==
    CASE level = LOG_DEBUG -> "Logging level set to DEBUG."
      [] level = LOG_INFO -> "Logging level set to INFO."
      [] level = LOG_WARNING -> "Logging level set to WARNING."
      [] level = LOG_ERROR -> "Logging level set to ERROR."
      [] OTHER -> "Logging level set to INFO."

\* VentoyFlasherGUI.set_log_level, from one of the entries of the Logging
\* menu: the new level is in force when the change is logged.
set_log_level ==
    /\ handler' = "set_log_level"
    /\ \E level \in Levels :
          /\ log_level' = level
          /\ events' = <<Log(LOG_INFO, LevelSet(level))>>
    /\ log_output' = Logged(log_output, events', log_level')
    /\ raised' = "none"
    /\ UNCHANGED <<os_type, PREDEFINED_OS, distro_list, mode_vars, text_vars, image_vars>>

\* The window with its pane followed: the level menu, the file dialog and
\* the flash, whose log calls all go through log_message.
NextLog ==
    \/ /\ Len(log_output) < MaxLog
       /\ set_log_level
       /\ UNCHANGED <<returned, created, app, step_vars, device_vars, twin_vars>>
    \/ /\ Len(log_output) < MaxLog
       /\ select_iso_file
       /\ log_output' = Logged(log_output, events', log_level)
       /\ UNCHANGED <<returned, created, app, step_vars, device_vars, twin_vars>>
    \/ /\ Len(log_output) < MaxLog
       /\ flash_usb
       /\ log_output' = Logged(log_output, events', log_level)
       /\ UNCHANGED <<returned, created, app, step_vars, device_vars, twin_vars>>

SpecLog == Init /\ [][NextLog]_vars

\* ------------------------------------------------- the blocking calls
\* select_distro and flash_usb run in the thread of the window and return
\* when the download or the write is over.  Here the two are followed
\* step by step: a download up to the copy loop of shutil.copyfileobj, the
\* loop one chunk at a time, and its end; a write up to subprocess.run and
\* its return.  The traces are those of the handlers, cut at that call.
MaxChunks == 3

\* The part of a trace before, and from, its first event of a kind.
RECURSIVE Before(_, _)
Before(t, kind) ==
    IF t = <<>> \/ Head(t).k = kind THEN <<>>
    ELSE <<Head(t)>> \o Before(Tail(t), kind)

From(t, kind) == SubSeq(t, Len(Before(t, kind)) + 1, Len(t))

\* A click on a catalog entry, up to the first read of the body.
begin_download ==
    /\ progress = Idle
    /\ handler' = "select_distro"
    /\ \E i \in 1..Len(distro_list), chunks \in 1..MaxChunks :
          /\ Lookup(distro_list[i]) # 0
          /\ events' = Before(gui_select_distro(distro_list[i], "ok").ev, "copyfileobj")
          /\ progress' = [phase |-> "Downloading", left |-> chunks]
    /\ cancel_requested' = FALSE
    /\ raised' = "none"
    /\ UNCHANGED window_vars

\* One turn of the loop of shutil.copyfileobj: read a chunk, write it.
copy_chunk ==
    /\ progress.phase = "Downloading"
    /\ progress.left > 0
    /\ events' = Append(events, Ext("chunk", "ok", events[Len(events)].p, <<>>))
    /\ progress' = [progress EXCEPT !.left = @ - 1]
    /\ UNCHANGED <<window_vars, handler, raised, cancel_requested>>

\* The empty read ends the loop; download_file returns the path and
\* select_distro selects it.
end_download ==
    /\ progress.phase = "Downloading"
    /\ progress.left = 0
    /\ \E i \in 1..Len(distro_list) :
          LET done == gui_select_distro(distro_list[i], "ok")
          IN  /\ Lookup(distro_list[i]) # 0
              /\ Before(done.ev, "copyfileobj") = Before(events, "chunk")
              /\ events' = events \o From(done.ev, "copyfileobj")
              /\ selected_iso_path' = done.ret
    /\ iso_verdict' = "none"
    /\ progress' = Idle
    /\ UNCHANGED <<catalog_vars, mode_vars, text_vars, handler, raised, cancel_requested>>

\* A click on "Flash USB" that gets to the dd command on Linux.
begin_write ==
    /\ progress = Idle
    /\ os_type = "Linux"
    /\ \E i \in Pos(gui_flash_usb("ok", TRUE, "ok").ev) :
          gui_flash_usb("ok", TRUE, "ok").ev[i].k = "dd"
    /\ gui_flash_usb("ok", TRUE, "ok").exc = "none"
    /\ handler' = "flash_usb"
    /\ events' = Before(gui_flash_usb("ok", TRUE, "ok").ev, "dd")
    /\ progress' = [phase |-> "Writing", left |-> 0]
    /\ cancel_requested' = FALSE
    /\ raised' = "none"
    /\ UNCHANGED window_vars

\* subprocess.run returns or raises; flash_usb goes on to the end.
end_write ==
    /\ progress.phase = "Writing"
    /\ \E rc \in CmdOutcomes :
          events' = events \o From(gui_flash_usb(rc, TRUE, "ok").ev, "dd")
    /\ progress' = Idle
    /\ UNCHANGED <<window_vars, handler, raised, cancel_requested>>

\* The user asks to cancel the operation in progress.  The window has no
\* handler for it and no call of FlashUtility looks at it.
request_cancel ==
    /\ progress # Idle
    /\ ~cancel_requested
    /\ cancel_requested' = TRUE
    /\ UNCHANGED <<window_vars, handler, events, raised, progress>>

NextSteps ==
    \/ begin_download /\ UNCHANGED <<log_output, returned, created, app, device_vars, twin_vars>>
    \/ copy_chunk /\ UNCHANGED <<log_output, returned, created, app, device_vars, twin_vars>>
    \/ end_download /\ UNCHANGED <<log_output, returned, created, app, device_vars, twin_vars>>
    \/ begin_write /\ UNCHANGED <<log_output, returned, created, app, device_vars, twin_vars>>
    \/ end_write /\ UNCHANGED <<log_output, returned, created, app, device_vars, twin_vars>>
    \/ request_cancel /\ UNCHANGED <<log_output, returned, created, app, device_vars, twin_vars>>

SpecSteps == Init /\ [][NextSteps]_vars

\* ------------------------------------------------ the working directory
\* The calls that make files, with the files followed.
NextFiles ==
    \/ /\ call_download_file
       /\ created' = created \cup Made(events')
       /\ UNCHANGED <<log_output, app, step_vars, device_vars, twin_vars>>
    \/ /\ call_extract_archive
       /\ created' = created \cup Made(events')
       /\ UNCHANGED <<log_output, app, step_vars, device_vars, twin_vars>>

SpecFiles == Init /\ [][NextFiles]_vars

\* VentoyFlasherGUI.closeEvent: the exit dialog, then cleanup and
\* event.accept() on Yes, event.ignore() otherwise.
closeEvent ==
    /\ app = "running"
    /\ handler' = "closeEvent"
    /\ \E reply \in Replies, rm \in FileOutcomes :
          IF reply = "Yes"
          THEN /\ events' = <<Ext("dialog", reply, NoPath, <<>>)>>
                            \o cleanup(TempRoot \in created, rm)
               /\ created' \in IF TempRoot \in created
                                THEN AfterRmtree(created, rm) ELSE {created}
               /\ app' = "closed"
          ELSE /\ events' = <<Ext("dialog", reply, NoPath, <<>>)>>
               /\ UNCHANGED <<created, app>>
    /\ raised' = "none"
    /\ UNCHANGED window_vars

\* An exception no handler catches ends the program where main leaves it
\* to the toolkit: PyQt5 aborts the process on an exception that escapes a
\* slot, and nothing runs after it.
abort ==
    /\ app = "running"
    /\ raised # "none"
    /\ app' = "aborted"
    /\ UNCHANGED <<window_vars, handler, events, raised, created>>

\* The window from its construction to its end, with the files followed:
\* downloads from the catalog, flashes, the close request and the abort.
NextLife ==
    \/ /\ app = "running"
       /\ select_distro
       /\ created' = created \cup Made(events')
       /\ UNCHANGED <<log_output, returned, app, step_vars, device_vars, twin_vars>>
    \/ app = "running" /\ flash_usb /\ UNCHANGED side_vars
    \/ closeEvent /\ UNCHANGED <<log_output, returned, step_vars, device_vars, twin_vars>>
    \/ abort /\ UNCHANGED <<log_output, returned, step_vars, device_vars, twin_vars>>

SpecLife == Init /\ [][NextLife]_vars

\* ------------------------------------------------- claims on single calls
\* extract_archive unpacks a path only when its name ends in one of these.
Recognized(path) == EndsWith(path, ".tar.gz") \/ EndsWith(path, ".zip")

\* The unpacking of a recognised archive was started and failed.
UnpackFailed(t) ==
    \E i \in Pos(t) : t[i].k \in {"tarfile", "zipfile"} /\ t[i].r # "ok"

\* C11: extract_archive on a path whose name ends in neither .tar.gz nor
\* .zip returns False, raises nothing, logs exactly one WARNING (the
\* unsupported format) and no ERROR, and never hands the file to the tar or
\* the zip reader, whatever the file holds.
C11_UnsupportedFormat ==
    (handler = "FlashUtility.extract_archive" /\ ~Recognized(events[1].p)) =>
        /\ returned = Ret("False", NoPath)
        /\ raised = "none"
        /\ LogCount(events, LOG_WARNING) = 1
        /\ LogCount(events, LOG_ERROR) = 0
        /\ \E i \in Pos(events) :
              events[i] = Log(LOG_WARNING, "Unsupported archive format.")
        /\ \A i \in Pos(events) : events[i].k \notin {"tarfile", "zipfile"}

C11_Witness ==
    /\ handler = "FlashUtility.extract_archive"
    /\ events[1].p = Join("/home/user", <<"ARCHIVE", ".ZIP">>)
    /\ events[1].d = <<"corrupt">>
    /\ returned = Ret("False", NoPath)

\* C12 as claimed: when the unpacking of a recognised archive fails,
\* extract_archive logs the failure at ERROR and raises an ArchiveError to
\* its caller, which the caller can tell from the False of an unsupported
\* format.
C12_RaisesArchiveError ==
    (handler = "FlashUtility.extract_archive" /\ UnpackFailed(events)) =>
        /\ LogCount(events, LOG_ERROR) = 1
        /\ raised = "ArchiveError"

\* C12 as amended: when the unpacking of a recognised archive fails,
\* extract_archive logs the failure at ERROR, once, logs no WARNING, raises
\* nothing and returns False, the value it also returns for an unsupported
\* format.
C12_ReturnsFalse ==
    (handler = "FlashUtility.extract_archive" /\ UnpackFailed(events)) =>
        /\ LogCount(events, LOG_ERROR) = 1
        /\ events[Len(events)] = Log(LOG_ERROR, "Extraction error")
        /\ LogCount(events, LOG_WARNING) = 0
        /\ raised = "none"
        /\ returned = Ret("False", NoPath)

C12_Witness ==
    /\ handler = "FlashUtility.extract_archive"
    /\ \E i \in Pos(events) : events[i].k = "tarfile" /\ events[i].r = "corrupt"

\* Opening or reading the file failed; the blocks read and the blocks fed.
ReadFailed(t) ==
    \E i \in Pos(t) : t[i].k \in {"open_rb", "read"} /\ t[i].r = "oserror"

BlocksOf(t, kind) ==
    LET hits == SelectSeq(t, LAMBDA e : e.k = kind /\ e.r \in {"block", "ok"})
    IN  [i \in 1..Len(hits) |-> hits[i].d]

\* C13: compute_sha256 returns a digest only when the file was opened and
\* every block up to the empty read was read and fed to the accumulator;
\* when the open or a read fails it returns None, and validate_iso then
\* reports the failure and neither a match, a mismatch nor a missing
\* expected hash.
C13_AllOrNothing ==
    /\ handler = "FlashUtility.compute_sha256" =>
          /\ returned.v # None =>
                /\ ~ReadFailed(events)
                /\ \E i \in Pos(events) : events[i].k = "read" /\ events[i].r = "eof"
                /\ BlocksOf(events, "update") = BlocksOf(events, "read")
          /\ ReadFailed(events) => returned = Ret(None, NoPath) /\ raised = "none"
    /\ (handler = "validate_iso" /\ ReadFailed(events)) =>
          /\ iso_verdict = "failed"
          /\ events[Len(events)] = Log(LOG_ERROR, "Failed to compute ISO hash.")
          /\ LogCount(events, LOG_WARNING) = 0
          /\ LogCount(events, LOG_INFO) = 0
          /\ raised = "none"

C13_Witness ==
    /\ handler = "validate_iso"
    /\ iso_verdict = "failed"
    /\ \E i, j \in Pos(events) :
          /\ i < j
          /\ events[i].k = "update"
          /\ events[j].k = "read" /\ events[j].r = "oserror"

\* C17: on a platform without support, the raw write and the partition
\* table reset hand their caller an outcome that differs from the plain
\* return of None they give after a success and after a failed command.
C17_UnsupportedOutcome ==
    (/\ handler \in {"FlashUtility.run_dd_command", "FlashUtility.reformat_usb"}
     /\ os_type # "Linux") =>
        \/ returned # Ret(None, NoPath)
        \/ raised # "none"

\* --------------------------------------- claims on the working directory
\* C14: every file and directory the program has made is under the working
\* directory, whatever the destination names of the downloads were.
C14_UnderTempDir == \A f \in created : Under(f, temp_dir)

\* C15: the working directory is there as long as the window runs, and once
\* the program has ended, by an accepted close or by an error, the
\* directory and everything under it are gone.
C15_RemovedAtShutdown ==
    /\ app = "running" => TempRoot \in created
    /\ app # "running" => \A f \in created : ~Under(f, temp_dir)

\* ------------------------------------------------- claims on the log pane
\* The lines log_message writes for the log calls of a trace whose level is
\* at least the minimum.
Shown(t, minimum) ==
    LET kept == SelectSeq(t, LAMBDA e : e.k = "log" /\ e.lvl >= minimum)
    IN  [i \in 1..Len(kept) |-> [tag |-> LevelName(kept[i].lvl), m |-> kept[i].m]]

\* C16: the minimum level is INFO at the start; a message is appended to
\* the pane exactly when its level is at least the minimum in force when it
\* is emitted; set_log_level changes the minimum for the messages emitted
\* after it (its own confirmation is the first of them) and leaves the
\* lines already in the pane alone, and no other handler changes it.
C16_LevelFilter ==
    /\ log_level = LOG_INFO
    /\ [][/\ log_output' = log_output
                \o Shown(events', IF handler' = "set_log_level"
                                  THEN log_level' ELSE log_level)
          /\ handler' # "set_log_level" => log_level' = log_level]_vars

C16_Witness ==
    /\ handler = "flash_usb"
    /\ log_level = LOG_WARNING
    /\ \E i \in Pos(events) : events[i].k = "log" /\ events[i].lvl = LOG_INFO
    /\ \E i \in Pos(events) : events[i].k = "log" /\ events[i].lvl = LOG_ERROR
    /\ log_output # <<>>
    /\ log_output[Len(log_output)].tag = "ERROR"
    /\ \A i \in 1..Len(log_output) : log_output[i].m # "Running dd command"

\* ------------------------------------------------ claims on the log events
\* The answers of the outside world that make an operation fail, and the
\* number of them in a trace.
FailedOutcomes ==
    {"nonzero", "oserror", "corrupt", "missing", "open_denied", "disk_full",
     "stream_error"} \cup NetworkFailures

FailureCount(t) ==
    Cardinality({ i \in Pos(t) : t[i].k # "log" /\ t[i].r \in FailedOutcomes })

\* C18: a handler run in which exactly one step fails emits exactly one
\* ERROR event, not one for each layer the failure passes through.
C18_OneErrorPerFailure ==
    FailureCount(events) = 1 => LogCount(events, LOG_ERROR) = 1

\* ------------------------------------------------- claims on cancellation
\* C19: a download with a cancellation requested is Cancelled by the end of
\* the chunk it is reading; a cancellation requested during the write on
\* the device is answered 'already in progress, cannot cancel' and the
\* write goes on.
C19_Cancellation ==
    [][/\ (cancel_requested /\ progress.phase = "Downloading") =>
              progress'.phase = "Cancelled"
       /\ (progress.phase = "Writing" /\ ~cancel_requested /\ cancel_requested') =>
              /\ progress' = progress
              /\ \E i \in Pos(events') :
                    events'[i].m = "already in progress, cannot cancel"]_vars

\* -------------------------------------------------- claims on the catalog
\* The probe of an entry answered 200 in a trace.
Answered200(t, e) ==
    \E i \in Pos(t) : t[i].k = "head" /\ t[i].d = e.name /\ t[i].r = "200"

\* C20: a revalidation, at startup or from the menu, probes every entry of
\* the catalog once and leaves exactly the entries whose probe answered
\* 200, unchanged and in their order; entries with another status or a
\* probe that raised are gone and none is added.
C20_Revalidated ==
    [][handler' \in {"validate_os_links", "update_iso_links"} =>
          /\ Count(events', "head") = Len(PREDEFINED_OS)
          /\ \A i \in 1..Len(PREDEFINED_OS) :
                \E j \in Pos(events') :
                    events'[j].k = "head" /\ events'[j].d = PREDEFINED_OS[i].name
          /\ PREDEFINED_OS' =
                SelectSeq(PREDEFINED_OS, LAMBDA e : Answered200(events', e))]_vars

C20_Witness ==
    /\ handler = "update_iso_links"
    /\ Len(PREDEFINED_OS) = 1
    /\ \E i \in Pos(events) : events[i].k = "head" /\ events[i].r = "raise"
    /\ \E i \in Pos(events) : events[i].k = "head" /\ events[i].r = "200"

\* The primitives that destroy what is on a device.
Destructive == {"dd", "ventoy", "parted"}

\* The identity d is one of a disk attached now, and the text of the
\* selector it was read from is the entry a listing made now gives that disk.
CurrentIdentity(d) ==
    \E i \in 1..Len(disks) :
        /\ disks[i].type = "disk"
        /\ DevicePath(disks[i].name) = d
        /\ device_entry(disks[i]) = Strip(usb_device_text)

\* C21: in every run of flash_usb and reformat_usb, each destructive
\* command acts on a device identity that holds against the devices attached
\* at that moment: an identity left in the selector by an earlier listing,
\* and stale since, is never written to.
C21_Revalidated ==
    [][(/\ handler' \in {"flash_usb", "reformat_usb"}
        /\ <<handler, events, raised>>' # <<handler, events, raised>>
        /\ disks' = disks)
       => \A i \in Pos(events') :
              events'[i].k \in Destructive => CurrentIdentity(events'[i].d)]_vars

\* The device identity the handlers take from a text of the selector.
Identity(text) == Split(Strip(text))[1]

\* The disks of a listing, in order: the devices populate_usb_devices shows.
DisksOf(listing) == SelectSeq(listing, LAMBDA dev : dev.type = "disk")

\* C25: after a listing, the selector holds one entry per disk and the
\* first blank-delimited token of each entry is "/dev/<name>" of its disk,
\* with any model and size; and flash_usb, reformat_usb and get_usb_details
\* act on the first token of the text the selector shows.
C25_IdentityOfEntry ==
    [][/\ (/\ handler' = "populate_usb_devices"
           /\ disks' = disks
           /\ \E i \in Pos(events') : events'[i].k = "lsblk" /\ events'[i].r = "ok")
          => /\ Len(usb_device_items') = Len(DisksOf(disks))
             /\ \A i \in 1..Len(usb_device_items') :
                    Identity(usb_device_items'[i]) = DevicePath(DisksOf(disks)[i].name)
       /\ (/\ handler' \in {"flash_usb", "reformat_usb", "get_usb_details"}
           /\ disks' = disks)
          => \A i \in Pos(events') :
                 events'[i].k \in {"dd", "parted", "dialog", "lsblk"}
                 => events'[i].d = Identity(usb_device_text)]_vars

\* A listing showed the disk without a model, the user left its entry in
\* the selector and had it reformatted.
C25_Witness ==
    /\ handler = "reformat_usb"
    /\ usb_device_text = device_entry(Backup)
    /\ \E i \in 1..Len(usb_device_items) :
          /\ usb_device_items[i] = device_entry(SystemDisk)
          /\ Identity(usb_device_items[i]) = DevicePath(SystemDisk.name)
    /\ \E i \in Pos(events) :
          events[i].k = "parted" /\ events[i].d = DevicePath(Backup.name)

\* The window is ready for a loader installation: Ventoy mode, and a
\* target left in the mount-point input once trimmed.
InstallReady == ventoy_checked /\ Strip(ventoy_mount_text) # <<>>

\* C22: the install_ventoy handler calls FlashUtility.install_ventoy only in
\* Ventoy mode with a non-empty trimmed target; in dd mode or with an empty
\* target its whole trace is one WARNING: no download, no extraction, no
\* command on a device.
C22_OnlyWhenReady ==
    handler = "install_ventoy"
    => /\ ~InstallReady
          => /\ Len(events) = 1
             /\ events[1].k = "log"
             /\ events[1].lvl = LOG_WARNING
       /\ InstallReady
          => /\ events # <<>>
             /\ events[1] = Log(LOG_INFO, "Starting Ventoy installation...")
       /\ (\E i \in Pos(events) : events[i].k # "log") => InstallReady

\* Install Ventoy clicked in dd mode with a target left in the input from
\* an earlier stay in Ventoy mode.
C22_Witness ==
    /\ handler = "install_ventoy"
    /\ dd_checked
    /\ Strip(ventoy_mount_text) # <<>>
    /\ LogCount(events, LOG_WARNING) = 1

\* C23: in a run of the reformat handler the parted command comes only
\* after the warning dialog of that run was answered Yes for that device;
\* after any other answer the run executes no command and its trace is the
\* dialog and one INFO "Reformatting canceled.".
C23_OnlyAfterYes ==
    handler = "reformat_usb"
    => /\ \A i \in Pos(events) :
              events[i].k = "parted"
              => \E j \in 1..(i - 1) :
                     /\ events[j].k = "dialog"
                     /\ events[j].r = "Yes"
                     /\ events[j].d = events[i].d
       /\ \A j \in Pos(events) :
              (events[j].k = "dialog" /\ events[j].r # "Yes")
              => /\ events = <<events[j], Log(LOG_INFO, "Reformatting canceled.")>>
                 /\ \A i \in Pos(events) : events[i].k \notin DeviceOps

\* The user asked for a reformat of the device shown and answered No.
C23_Witness ==
    /\ handler = "reformat_usb"
    /\ os_type = "Linux"
    /\ \E j \in Pos(events) :
          /\ events[j].k = "dialog"
          /\ events[j].r = "No"
          /\ events[j].d = Identity(usb_device_text)
    /\ LogCount(events, LOG_INFO) = 1

\* C26: in every state of the window exactly one mode is selected, the
\* device selector and the Refresh button are enabled exactly in dd mode,
\* and the mount-point input is enabled exactly in Ventoy mode.
C26_ModeWidgets ==
    /\ dd_checked # ventoy_checked
    /\ usb_device_enabled = dd_checked
    /\ refresh_enabled = dd_checked
    /\ ventoy_mount_enabled = ventoy_checked

\* The user went to Ventoy mode, typed a mount point, and came back to dd
\* mode with a click.
C26_Witness ==
    /\ handler = "toggle_mode"
    /\ dd_checked
    /\ refresh_enabled
    /\ Strip(ventoy_mount_text) # <<>>

\* The names a sequence of names holds.
NameSet(names) == { names[i] : i \in 1..Len(names) }

\* C28: construction and every run of validate_os_links and of
\* update_iso_links leave the names of the predefined-OS list widget equal
\* to the keys of PREDEFINED_OS: an entry goes from both or from neither.
C28_ListMatchesCatalog ==
    /\ NameSet(distro_list) = NameSet(Names(PREDEFINED_OS))
    /\ Len(distro_list) = Len(PREDEFINED_OS)

\* Update ISO Links found the link of the second entry unreachable and
\* removed it from the catalog and from the list.
C28_Witness ==
    /\ handler = "update_iso_links"
    /\ Names(PREDEFINED_OS) = <<ArchEntry.name>>
    /\ distro_list = <<ArchEntry.name>>
    /\ LogCount(events, LOG_WARNING) + LogCount(events, LOG_ERROR) = 1

\* The trace holds a download that went through to the end.
Downloaded(t) == \E i \in Pos(t) : t[i].k = "copyfileobj" /\ t[i].r = "ok"

\* C27: a run of select_distro changes the selected image only when its
\* download succeeded, and then to "<name>.iso" of a catalog entry under
\* the working directory; when the download fails the selected image keeps
\* its value; a download is started only for a name of the catalog, so a
\* click on a name that is gone changes nothing.
C27_SelectedOnSuccess ==
    [][handler' = "select_distro"
       => /\ selected_iso_path' # selected_iso_path
             => /\ Downloaded(events')
                /\ \E i \in 1..Len(PREDEFINED_OS) :
                       /\ selected_iso_path'
                              = Join(temp_dir, PREDEFINED_OS[i].name \o <<".iso">>)
                       /\ \E j \in Pos(events') :
                              events'[j].k = "get" /\ events'[j].p = PREDEFINED_OS[i].url
          /\ (events' # events /\ ~Downloaded(events'))
             => selected_iso_path' = selected_iso_path
          /\ (\E j \in Pos(events') : events'[j].k = "get")
             => \E i \in 1..Len(PREDEFINED_OS) :
                    \E j \in Pos(events') :
                        events'[j].k = "get" /\ events'[j].p = PREDEFINED_OS[i].url
          /\ (events' # events /\ events' = <<>>)
             => UNCHANGED <<selected_iso_path, iso_verdict, PREDEFINED_OS, distro_list>>]_vars

\* An image was picked from the file dialog, the catalog lost an entry, and
\* a click on the name that is gone left the image selected.
C27_Witness ==
    /\ handler = "select_distro"
    /\ events = <<>>
    /\ Len(PREDEFINED_OS) < 2
    /\ selected_iso_path \in LocalFiles

\* C24: at a close request the close is accepted with the working directory
\* and everything under it removed exactly when the user answers Yes; after
\* any other answer the window keeps running with the files and the
\* widgets as they were.
C24_CloseOnYes ==
    [][(/\ app = "running"
        /\ handler' = "closeEvent"
        /\ events' # <<>>
        /\ events'[1].k = "dialog")
       => /\ events'[1].r = "Yes"
             <=> /\ app' = "closed"
                 /\ \A f \in created' : ~Under(f, temp_dir)
          /\ events'[1].r # "Yes"
             => /\ app' = "running"
                /\ created' = created
                /\ UNCHANGED window_vars]_vars

\* C30: every set_log_level(L) leaves L as the minimum level and the pane
\* with its former lines, unaltered, followed by exactly one new line, the
\* confirmation "Logging level set to <name of L>.".
C30_ConfirmationAppended ==
    [][handler' = "set_log_level"
       => /\ log_level' \in Levels
          /\ Len(log_output') = Len(log_output) + 1
          /\ SubSeq(log_output', 1, Len(log_output)) = log_output
          /\ log_output'[Len(log_output')].m = LevelSet(log_level')]_vars

\* C29: after any sequence of calls made on FlashUtility of backend.py and
\* on FlashUtility of application.py with the same arguments and the same
\* answers of the outside world, the two traces (log events and external
\* commands) and the two results are the same.
C29_SameBehaviour ==
    /\ app_events = events
    /\ app_returned = returned

============================================================================
